---- MODULE Spec2Model ----
(***************************************************************************)
(* HeroCapture content script: extractFingerprint() and the                *)
(* EXTRACT_FINGERPRINT listener of src/content/content-script.js.          *)
(*                                                                         *)
(* A document is a record: the viewport, the title, the set of stack       *)
(* markers the page exhibits, the text, class words and background of the  *)
(* root elements, and the body's elements in document order (parent index  *)
(* 0 is <body>).  Text is a sequence of lower-case words.                  *)
(* One call of extractFingerprint is a run of steps in source order; the   *)
(* function's local variables are the variables below, set afresh by the   *)
(* step that declares them.                                                *)
(***************************************************************************)
EXTENDS Integers, Sequences, FiniteSets, TLC

VARIABLES
    doc,               \* the page the content script runs in
    engine,            \* the build of the host: which order its sort leaves
                       \* when a comparator is not consistent
    host,              \* whether document.elementFromPoint answers ("ok") or
                       \* throws ("throws") in this page
    pc,                \* position inside the listener / extractFingerprint
    calls,             \* EXTRACT_FINGERPRINT messages handled so far
    callDoc,           \* the page as the latest call found it
    prevCallDoc,       \* the page as the call before found it
    heroBottom,        \* let heroBottom (line 55), kept after the return
    prevHeroBottom,    \* heroBottom of the call before
    headline,          \* headline, headlineEl, largestText and h1
    heroCtaCandidates, \* the ranked CTA candidates
    subheadline,       \* let subheadline (line 317)
    detectedStack,     \* const detectedStack (line 671)
    response,          \* what the listener passed to sendResponse
    prevResponse,      \* the response of the call before
    \* src/lib/auth.js and src/lib/api.js
    storage,           \* chrome.storage.local[AUTH_STORAGE_KEY]
    server,            \* the API: the refresh token it accepts, the expiry
                       \* of each access token, the last token it issued
    now,               \* Date.now(), in milliseconds
    proc,              \* the calls of getCurrentSession and authFetch in
                       \* progress: position, locals and result of each
    \* src/content/floating-icon.js and src/background/service-worker.js
    tabs,              \* each tab: its URL, the floating icon's fabState and
                       \* pending timers, the EXTRACT_FINGERPRINT listeners
    active,            \* the active tab of the window
    panel,             \* let state of the side panel (lines 245-261)
    msgs,              \* messages and events sent and not yet handled
    cap,               \* the runs of handleCapture: position and locals
    events             \* the user's actions so far

heroVars == <<doc, engine, host, pc, calls, callDoc, prevCallDoc, heroBottom,
              prevHeroBottom, headline, heroCtaCandidates, subheadline,
              detectedStack, response, prevResponse>>
authVars == <<storage, server, now, proc>>
captureVars == <<tabs, active, panel, msgs, cap, events>>
vars == <<heroVars, authVars, captureVars>>

Null == "null"
NoResponse == [success |-> FALSE, error |-> "none yet"]

\* ---------------------------------------------------------------- bounds
MaxCalls == 2
MaxSections == 3
Engines == 3
\* concurrent callers of the auth client, and steps of the clock
Callers == 2
MaxTicks == 3
\* the life of an access token the server issues, in steps of the clock
LifetimeTicks == 2
\* tabs of the window, runs of handleCapture that overlap, requests of
\* checkAuthStatus that overlap, timers of one floating icon that are pending
Tabs == 2
MaxCaptures == 2
MaxPolls == 1
MaxTimers == 2
\* listeners of one page that are told apart: MaxListeners stands for more too
MaxListeners == 2
\* actions of the user in one behaviour
MaxEvents == 3

\* ------------------------------------------------------------- sequences
RECURSIVE SeqOfSet(_)
SeqOfSet(S) ==
    IF S = {} THEN <<>>
    ELSE LET m == CHOOSE x \in S : \A y \in S : x <= y
         IN <<m>> \o SeqOfSet(S \ {m})

RECURSIVE Flatten(_)
Flatten(ss) == IF ss = <<>> THEN <<>> ELSE Head(ss) \o Flatten(Tail(ss))

Range(q) == {q[k] : k \in 1..Len(q)}

Max(a, b) == IF a >= b THEN a ELSE b
Min(a, b) == IF a <= b THEN a ELSE b
Abs(x) == IF x < 0 THEN -x ELSE x

\* ------------------------------------------------------------------ tree
Transparent == [r |-> 0, g |-> 0, b |-> 0, a |-> 0]
Rgb(r, g, b) == [r |-> r, g |-> g, b |-> b, a |-> 100]

\* An element with the defaults of an unstyled block.  Alpha is in
\* hundredths; bgImage is "none", "url" or "gradient" with its colour stops
\* in textual order; cls holds the words of class and id, firstClass the
\* first token of className.
El(tag, parent, top, height, left, width) ==
    [tag |-> tag, parent |-> parent,
     top |-> top, height |-> height, left |-> left, width |-> width,
     fontSize |-> 16, text |-> <<>>, cls |-> {}, firstClass |-> "",
     attrs |-> {},
     framerName |-> "",
     display |-> "block", visibility |-> "visible", opacity |-> 100,
     position |-> "static",
     textAlign |-> "start", listStyle |-> "disc", alt |-> "", src |-> "",
     color |-> Rgb(0, 0, 0), bg |-> Transparent,
     bgImage |-> "none", stops |-> <<>>]

Bottom(n) == n.top + n.height

\* el.children, in document order; i = 0 is document.body
Children(d, i) ==
    SeqOfSet({j \in 1..Len(d.nodes) : d.nodes[j].parent = i})

\* el, el.parentElement, ... up to but not including document.body
RECURSIVE Chain(_, _)
Chain(d, i) == IF i = 0 THEN <<>> ELSE <<i>> \o Chain(d, d.nodes[i].parent)

ChainSet(d, i) == {Chain(d, i)[k] : k \in 1..Len(Chain(d, i))}

\* the elements el.querySelectorAll("*") visits; i = 0 is the document
Descendants(d, i) ==
    {j \in 1..Len(d.nodes) : j # i /\ (i = 0 \/ i \in ChainSet(d, j))}

Subtree(d, i) == Descendants(d, i) \cup {i}

\* el.closest(sel): the first of el and its ancestors that satisfies Sel
Closest(d, i, Sel(_)) ==
    LET c == Chain(d, i)
        hits == {k \in 1..Len(c) : Sel(d.nodes[c[k]])}
    IN IF hits = {} THEN 0
       ELSE c[CHOOSE k \in hits : \A m \in hits : k <= m]

HasTag(n, tags) == n.tag \in tags

\* el.innerText: the rendered text of el and its descendants in document
\* order, own text first, without the subtrees in `removed`
RECURSIVE InnerTextOf(_, _, _)
InnerTextOf(d, i, removed) ==
    LET kids == Children(d, i)
        below == Flatten([k \in 1..Len(kids) |->
                    InnerTextOf(d, kids[k], removed)])
    IN IF i = 0 THEN d.ownText \o below
       ELSE IF i \in removed \/ d.nodes[i].display = "none" THEN <<>>
       ELSE d.nodes[i].text \o below

InnerText(d, i) == InnerTextOf(d, i, {})

\* innerText of a detached clone: the text content, hidden parts included
RECURSIVE TextContentOf(_, _, _)
TextContentOf(d, i, removed) ==
    LET kids == Children(d, i)
        below == Flatten([k \in 1..Len(kids) |->
                    TextContentOf(d, kids[k], removed)])
    IN IF i \in removed THEN <<>> ELSE d.nodes[i].text \o below

\* ------------------------------------------------------------------ text
\* the number of characters of each word the documents use
WordChars(w) ==
    CASE w \in {"x", "$5", "©", "in", "up", "to"} -> 2
      [] w \in {"404", "get", "try", "buy", "our", "now", "the", "and",
                "log", "app", "$49", "not"} -> 3
      [] w \in {"acme", "ship", "code", "free", "more", "demo", "sign",
                "with", "docs", "blog", "book", "shop", "1234", "page"} -> 4
      [] w \in {"learn", "start", "found"} -> 5
      [] w \in {"google", "access", "denied"} -> 6
      [] w = "together" -> 8
      [] w = "longdescription" -> 300
      [] OTHER -> 7

RECURSIVE Chars(_)
\* text.length of the cleaned text: the words and one space between them
Chars(t) ==
    IF t = <<>> THEN 0
    ELSE WordChars(Head(t)) + (IF Len(t) > 1 THEN 1 ELSE 0) + Chars(Tail(t))

\* words with no run of two letters: /[a-zA-Z]{2,}/ fails on them
NoLetters == {"x", "$5", "404", "1234", "©"}
HasLetters(t) == \E k \in 1..Len(t) : t[k] \notin NoLetters

HasWord(t, S) == \E k \in 1..Len(t) : t[k] \in S
CountWords(t, S) == Cardinality({k \in 1..Len(t) : t[k] \in S})
StartsWith(t, p) == Len(t) >= Len(p) /\ SubSeq(t, 1, Len(p)) = p
HasPhrase(t, p) ==
    \E k \in 0..(Len(t) - Len(p)) : SubSeq(t, k + 1, k + Len(p)) = p

\* ------------------------------------------------- visibility and regions
isVisible(n) ==
    /\ n.display # "none"
    /\ n.visibility # "hidden"
    /\ n.opacity # 0
    /\ n.width > 0
    /\ n.height > 0

isFixedOrSticky(n) == n.position \in {"fixed", "sticky"}

\* the attribute selectors of the first closest() of inNavOrHeader
NavAttrs == {"role=navigation", "role=menubar", "role=menu", "role=toolbar",
             "aria-label*=nav", "aria-label*=menu",
             "data-testid*=nav", "data-testid*=header"}

\* navClassRegex, on the words of className and id
NavClassWords == {"nav", "navbar", "navigation", "menu", "topbar", "top-bar",
                  "site-header", "masthead", "toolbar"}

inNavOrHeader(d, i) ==
    LET header == Closest(d, i, LAMBDA n : n.tag = "HEADER")
        aside == Closest(d, i, LAMBDA n : n.tag = "ASIDE")
    IN \/ Closest(d, i, LAMBDA n : n.tag \in {"NAV", "FOOTER"}
                                   \/ n.attrs \cap NavAttrs # {}) # 0
       \/ header # 0 /\ d.nodes[header].height < 150
       \/ aside # 0 /\ (2 * d.nodes[aside].width < d.vw
                        \/ d.nodes[aside].height < 150)
       \/ \E j \in ChainSet(d, i) :
             /\ d.nodes[j].cls \cap NavClassWords # {}
             /\ d.nodes[j].top < 120
             /\ d.nodes[j].height < 150

FramerNavNames == {"footer", "nav", "navbar", "navigation", "menu", "header"}

\* a "header" name on a region 150px or taller is skipped, the walk goes on
inFramerNavOrFooter(d, i) ==
    \E j \in ChainSet(d, i) :
       /\ d.nodes[j].framerName \in FramerNavNames
       /\ ~(d.nodes[j].framerName = "header" /\ d.nodes[j].height >= 150)

looksLikeFooterContent(d, i) ==
    LET t == InnerText(d, i)
    IN \/ HasWord(t, {"©", "copyright"})
       \/ HasPhrase(t, <<"all", "rights", "reserved">>)

\* --------------------------------------------------------- hero boundary
\* a cap at 1.5 times the viewport height
HeroMaxBottomLoose(vh) == (vh * 150) \div 100
\* viewportHeight * 1.15; viewport heights are multiples of 20
HeroMaxBottom(vh) == (vh * 115) \div 100

\* a wrapper is dug into as soon as it is taller than the viewport
DigsIntoTallerThanViewport(d, w) ==
    /\ d.nodes[w].height > d.vh
    /\ Len(Children(d, w)) > 1

\* r.height > viewportHeight * 1.5 && wrapper.children.length > 1
DigsInto(d, w) ==
    /\ 2 * d.nodes[w].height > 3 * d.vh
    /\ Len(Children(d, w)) > 1

HeroSections(d) ==
    LET top == Children(d, 0)
        deeper == Flatten([k \in 1..Len(top) |->
                     IF DigsInto(d, top[k]) THEN Children(d, top[k])
                     ELSE <<top[k]>>])
    IN IF Len(top) <= 3 /\ Len(deeper) > Len(top) THEN deeper ELSE top

\* the for loop over sections, from section k on, with heroBottom = hb
RECURSIVE BoundaryLoop(_, _, _, _)
BoundaryLoop(d, secs, k, hb) ==
    IF k > Len(secs) THEN hb
    ELSE LET s == d.nodes[secs[k]]
         IN IF Bottom(s) <= 0 THEN BoundaryLoop(d, secs, k + 1, hb)
            ELSE IF s.top >= HeroMaxBottom(d.vh) THEN hb
            ELSE BoundaryLoop(d, secs, k + 1,
                     Min(HeroMaxBottom(d.vh), Max(hb, Bottom(s))))

\* the loop started from 0 instead of viewportHeight
HeroBottomFromZero(d) == BoundaryLoop(d, HeroSections(d), 1, 0)
\* the loop over the visible sections only
HeroBottomOfVisible(d) ==
    BoundaryLoop(d, SelectSeq(HeroSections(d), LAMBDA i : isVisible(d.nodes[i])),
                 1, d.vh)
ComputeHeroBottom(d) == BoundaryLoop(d, HeroSections(d), 1, d.vh)

\* r.bottom > 0 && r.top < heroBottom
inHero(n, hb) == Bottom(n) > 0 /\ n.top < hb

\* --------------------------------------------------------------- headline
TextTags == {"H1", "H2", "H3", "P", "SPAN", "DIV"}

\* document.querySelectorAll(sel) filtered by Keep, in document order
Select(d, Keep(_)) == SeqOfSet({i \in 1..Len(d.nodes) : Keep(i)})

heroTextNodes(d, hb) ==
    Select(d, LAMBDA i :
        /\ d.nodes[i].tag \in TextTags
        /\ inHero(d.nodes[i], hb)
        /\ ~inNavOrHeader(d, i)
        /\ ~inFramerNavOrFooter(d, i)
        /\ ~looksLikeFooterContent(d, i)
        /\ isVisible(d.nodes[i])
        /\ ~isFixedOrSticky(d.nodes[i]))

\* NAV_WORDS; "log in", "sign in" and "sign up" also match as two words
NavWords == {"login", "signin", "signup", "pricing", "blog", "resources",
             "community", "support", "contact", "about", "product",
             "products", "solution", "solutions", "enterprise", "platform",
             "documentation", "docs", "careers", "partner", "partners"}
NavPairs == {<<"log", "in">>, <<"sign", "in">>, <<"sign", "up">>}

NavMatches(t) ==
    CountWords(t, NavWords)
    + Cardinality({k \in 1..(Len(t) - 1) : SubSeq(t, k, k + 1) \in NavPairs})

\* null and "" are not nav-like; else >= 3 nav words making up >= 25%
looksLikeNavText(t) ==
    /\ t # <<>>
    /\ NavMatches(t) >= 3
    /\ 4 * NavMatches(t) >= Len(t)

MAX_HEADLINE_WORDS == 30

\* the value null where a text is expected (headline, subheadline, ...)
NullText == <<"<null>">>
Falsy(t) == t = NullText \/ t = <<>>

LinkLike(n) ==
    n.tag \in {"A", "BUTTON", "NAV", "HEADER"} \/ "role=button" \in n.attrs

\* a[href^='#'] whose text reads "skip to content"
SkipLink(n) == n.tag = "A" /\ "href=#skip" \in n.attrs

\* the nodes the clone loses: skip links, and links when there are >= 3
SkipLinks(d, i) ==
    UNION {Subtree(d, j) : j \in {k \in Descendants(d, i) : SkipLink(d.nodes[k])}}
LinksLeft(d, i, gone) == {j \in Descendants(d, i) \ gone : LinkLike(d.nodes[j])}
StripLinks(d, gone, links) ==
    IF Cardinality(links) >= 3
    THEN gone \cup UNION {Subtree(d, j) : j \in links}
    ELSE gone
Stripped(d, i, gone) == StripLinks(d, gone, LinksLeft(d, i, gone))
DirectOrInner(d, i, text) == IF Len(text) >= 2 THEN text ELSE InnerText(d, i)

getDirectHeadlineText(d, i) ==
    IF i = 0 THEN <<>>
    ELSE DirectOrInner(d, i, TextContentOf(d, i, Stripped(d, i, SkipLinks(d, i))))

\* words before and including the first that ends a sentence
SentenceEnds == {"faster.", "done.", "now!"}
FirstSentence(t) ==
    LET ends == {k \in 1..Len(t) : t[k] \in SentenceEnds}
    IN IF ends = {} THEN <<>>
       ELSE SubSeq(t, 1, CHOOSE k \in ends : \A m \in ends : k <= m)

SentenceOrCut(t, first) ==
    IF first # <<>> /\ Len(first) <= MAX_HEADLINE_WORDS
    THEN first ELSE SubSeq(t, 1, 15)

truncateHeadline(t) ==
    IF Falsy(t) \/ Len(t) <= MAX_HEADLINE_WORDS THEN t
    ELSE SentenceOrCut(t, FirstSentence(t))

\* the first H1 among the hero text nodes, 0 when there is none
FirstOrNone(q) == IF q = <<>> THEN 0 ELSE q[1]
FindH1(d, hb) ==
    FirstOrNone(SelectSeq(heroTextNodes(d, hb), LAMBDA i : d.nodes[i].tag = "H1"))

\* Strategy 2 of the widening: the while loop from `wrapper` with `head`
RECURSIVE WidenLoop(_, _, _)
Longer(wText, head) ==
    IF Len(wText) > Len(head) /\ Len(wText) <= MAX_HEADLINE_WORDS
    THEN wText ELSE head
RECURSIVE WidenStep(_, _, _, _)
WidenLoop(d, wrapper, head) ==
    IF wrapper = 0 THEN head
    ELSE WidenStep(d, wrapper, head, InnerText(d, wrapper))
WidenStep(d, wrapper, head, wText) ==
    IF looksLikeNavText(wText) \/ Len(wText) > MAX_HEADLINE_WORDS
    THEN head
    ELSE IF d.nodes[wrapper].tag \in {"SECTION", "HEADER", "MAIN", "ARTICLE"}
    THEN Longer(wText, head)
    ELSE WidenLoop(d, d.nodes[wrapper].parent, Longer(wText, head))

\* let headline after lines 196-243
\* Strategy 1: the text of the closest RichTextContainer
RichText(d, rtc) == IF rtc = 0 THEN <<>> ELSE InnerText(d, rtc)
Strategy1(direct, rtc, full) ==
    IF rtc # 0 /\ Chars(full) > Chars(direct) /\ Len(full) <= MAX_HEADLINE_WORDS
    THEN full ELSE direct
RichHeadline(d, direct, rtc) == Strategy1(direct, rtc, RichText(d, rtc))
\* Strategy 2 when the headline is still <= 2 words
Strategy2(d, h1, s1) ==
    IF Len(s1) <= 2 THEN WidenLoop(d, d.nodes[h1].parent, s1) ELSE s1
Widened(d, h1, direct) ==
    IF direct # <<>> /\ Len(direct) <= 2
    THEN Strategy2(d, h1, RichHeadline(d, direct,
             Closest(d, h1, LAMBDA n : "RichTextContainer" \in n.attrs)))
    ELSE direct
\* the discard of nav text alone
RejectedNavOnly(widened) == looksLikeNavText(widened)
Rejected(widened) ==
    \/ widened # <<>> /\ Len(widened) > MAX_HEADLINE_WORDS
    \/ looksLikeNavText(widened)
NullIfRejected(widened) == IF Rejected(widened) THEN NullText ELSE widened
H1Headline(d, h1) ==
    IF h1 = 0 THEN NullText
    ELSE NullIfRejected(Widened(d, h1, getDirectHeadlineText(d, h1)))

\* the candidates of lines 245-259 before the sort, in document order
HeadlineText(text) ==
    /\ Chars(text) > 3
    /\ HasLetters(text)
    /\ ~looksLikeNavText(text)
    /\ Len(text) <= MAX_HEADLINE_WORDS
HeadlineCandidates(d, hb) ==
    SelectSeq(heroTextNodes(d, hb), LAMBDA i : HeadlineText(InnerText(d, i)))

\* candidates[0] after the stable sort by descending font size
Largest(d, c) ==
    {k \in 1..Len(c) :
       \A m \in 1..Len(c) : d.nodes[c[m]].fontSize <= d.nodes[c[k]].fontSize}
Least(S) == CHOOSE k \in S : \A m \in S : k <= m
FirstLargest(d, c) == IF c = <<>> THEN 0 ELSE c[Least(Largest(d, c))]
Best(d, hb) == FirstLargest(d, HeadlineCandidates(d, hb))

DirectOrAll(d, best, direct) ==
    IF direct # <<>> /\ ~looksLikeNavText(direct) /\ Len(direct) >= 2
    THEN direct ELSE InnerText(d, best)
LargestText(d, best) ==
    IF best = 0 THEN NullText
    ELSE truncateHeadline(DirectOrAll(d, best, getDirectHeadlineText(d, best)))

h1LikelyNav(d, h1) ==
    /\ h1 # 0
    /\ \/ inNavOrHeader(d, h1)
       \/ inFramerNavOrFooter(d, h1)
       \/ isFixedOrSticky(d.nodes[h1])
       \/ d.nodes[h1].parent # 0
          /\ isFixedOrSticky(d.nodes[d.nodes[h1].parent])
       \/ /\ d.nodes[h1].top < 90
          /\ d.nodes[h1].height < 90
          /\ 2 * d.nodes[h1].width < d.vw

h1IsLink(d, h1) ==
    \/ Closest(d, h1, LAMBDA n : n.tag = "A") # 0
    \/ \E j \in Descendants(d, h1) : d.nodes[j].tag = "A"

headlineLooksLikeLogo(d, h1, head) ==
    /\ h1 # 0
    /\ ~Falsy(head)
    /\ Len(head) <= 3
    /\ d.nodes[h1].top < 120
    /\ d.nodes[h1].height < 90
    /\ d.nodes[h1].fontSize <= 28
    /\ (h1IsLink(d, h1) \/ 100 * d.nodes[h1].width < 35 * d.vw)

candidateBeatsH1(d, h1, best, largest) ==
    /\ best # 0
    /\ ~Falsy(largest)
    /\ (h1 = 0 \/ d.nodes[best].top >= Bottom(d.nodes[h1]) + 20)
    /\ (h1 = 0 \/ d.nodes[h1].fontSize = 0
          \/ d.nodes[best].fontSize >= d.nodes[h1].fontSize + 4)

\* a candidate 4px larger and 20px below counts as clearly better
candidateBetterByFour(d, h1, best, largest) ==
    /\ best # 0
    /\ ~Falsy(largest)
    /\ h1 # 0
    /\ d.nodes[best].top >= Bottom(d.nodes[h1]) + 20
    /\ d.nodes[best].fontSize >= d.nodes[h1].fontSize + 4

candidateClearlyBetter(d, h1, best, largest) ==
    /\ best # 0
    /\ ~Falsy(largest)
    /\ h1 # 0
    /\ d.nodes[best].top >= Bottom(d.nodes[h1]) + 24
    /\ d.nodes[best].fontSize >= d.nodes[h1].fontSize + 8

\* headline, headlineEl and largestText after line 312
\* the three overrides of lines 283-303
Override(d, h1, head, best, largest) ==
    \/ headlineLooksLikeLogo(d, h1, head) /\ candidateBeatsH1(d, h1, best, largest)
    \/ h1LikelyNav(d, h1) /\ candidateBeatsH1(d, h1, best, largest)
    \/ candidateClearlyBetter(d, h1, best, largest)
\* lines 306-311: without a headline the largest text stands in
Settle(h1, head, el, best, largest) ==
    IF Falsy(head) /\ ~Falsy(largest)
    THEN [headline |-> largest, headlineEl |-> best, largestText |-> largest, h1 |-> h1]
    ELSE [headline |-> head, headlineEl |-> el, largestText |-> largest, h1 |-> h1]
Overridden(h1, head, best, largest, override) ==
    IF override
    THEN Settle(h1, largest, best, best, largest)
    ELSE Settle(h1, head, IF head = NullText THEN 0 ELSE h1, best, largest)
Compare(d, h1, head, best, largest) ==
    Overridden(h1, head, best, largest, Override(d, h1, head, best, largest))
WithLargest(d, h1, best) ==
    Compare(d, h1, H1Headline(d, h1), best, LargestText(d, best))
SelectHeadline(d, hb) == WithLargest(d, FindH1(d, hb), Best(d, hb))

\* -------------------------------------------------------------------- CTAs
CtaElement(n) ==
    \/ n.tag \in {"BUTTON", "A"}
    \/ "role=button" \in n.attrs
    \/ n.tag = "INPUT" /\ "type=submit" \in n.attrs

\* el.innerText || el.value
CtaText(d, i) ==
    IF d.nodes[i].tag = "INPUT" THEN d.nodes[i].text ELSE InnerText(d, i)

ctaCandidates(d, hb) ==
    LET els == Select(d, LAMBDA i :
                  /\ CtaElement(d.nodes[i])
                  /\ inHero(d.nodes[i], hb)
                  /\ ~inNavOrHeader(d, i)
                  /\ ~inFramerNavOrFooter(d, i)
                  /\ isVisible(d.nodes[i])
                  /\ CtaText(d, i) # <<>>)
    IN [k \in 1..Len(els) |->
          [text |-> CtaText(d, els[k]),
           top |-> d.nodes[els[k]].top,
           left |-> d.nodes[els[k]].left,
           area |-> d.nodes[els[k]].width * d.nodes[els[k]].height,
           isButton |-> d.nodes[els[k]].tag \in {"BUTTON", "INPUT"}
                        \/ "role=button" \in d.nodes[els[k]].attrs]]

\* legalLinkRegex, anywhere in the text
LegalText(t) ==
    \/ HasWord(t, {"terms", "legal"})
    \/ \E p \in {<<"user", "agreement">>, <<"privacy", "policy">>,
                 <<"cookie", "policy">>} : HasPhrase(t, p)

\* footerNavRegex, the whole text
FooterNavTexts ==
    {<<w>> : w \in {"instagram", "twitter", "facebook", "linkedin", "youtube",
                    "tiktok", "discord", "reddit", "github", "medium", "x",
                    "blog", "about", "careers", "contact", "support", "help",
                    "terms", "privacy", "cookie", "home", "manifesto",
                    "research", "rules"}}
    \cup {<<"back", "to", "top">>, <<"the", "boring">>, <<"the", "good">>,
          <<"the", "cool">>, <<"play", "by", "the", "rules">>}

\* utilityLinkRegex, at the start of the text
UtilityStarts ==
    {<<"forgot", "password">>, <<"forgot", "your", "password">>,
     <<"reset", "password">>, <<"reset", "your", "password">>,
     <<"cant", "log", "in">>, <<"cant", "sign", "in">>, <<"need", "help">>,
     <<"trouble", "logging", "in">>, <<"trouble", "signing", "in">>}

\* the words of the documents that begin with a verb of the single-word
\* exemption of line 365
SingleWordStarts ==
    {"start", "startups", "try", "buy", "join", "get", "apply", "subscribe",
     "download", "install", "register", "explore", "discover", "watch",
     "book", "schedule", "request", "submit", "enter", "launch", "upgrade",
     "claim", "demo", "contact"}

KeepCta(c) ==
    /\ ~LegalText(c.text)
    /\ c.text \notin FooterNavTexts
    /\ ~\E p \in UtilityStarts : StartsWith(c.text, p)
    /\ ~(Len(c.text) = 1 /\ Chars(c.text) < 12
         /\ c.text[1] \notin SingleWordStarts)

filteredCtas(d, hb) == SelectSeq(ctaCandidates(d, hb), KeepCta)

\* the positional filter of lines 370-376; el is headlineEl, 0 for null
NearHeadline(d, el, c) ==
    /\ c.top >= 120
    /\ \/ el = 0
       \/ /\ ~(5 * c.top > 4 * d.vh /\ c.top > Bottom(d.nodes[el]) + 420)
          /\ c.top >= d.nodes[el].top - 40
          /\ c.top <= Bottom(d.nodes[el]) + 420

\* oauthCtaRegex, anywhere in the text
OAuthProviders == {"google", "apple", "github", "microsoft"}
OAuthText(t) ==
    \E v \in {<<"sign", "in", "with">>, <<"sign", "up", "with">>,
              <<"continue", "with">>, <<"log", "in", "with">>},
       g \in OAuthProviders : HasPhrase(t, v \o <<g>>)

\* the first words of the three tiers of ctaPriority and of primaryCtaRegex
SelfServeStarts ==
    {"deploy", "start", "startups", "try", "create", "register", "join",
     "launch", "download", "install", "begin", "buy", "subscribe",
     "getstarted", "signup"}
SalesLedStarts == {"book", "schedule", "request", "contact", "demo"}
InfoStarts == {"explore", "watch"}
PrimaryStarts ==
    {"login", "signin", "signup", "create", "register", "getstarted",
     "start", "startups", "try", "buy", "join", "subscribe", "download",
     "explore", "book", "launch", "submit", "contact", "request",
     "schedule", "demo", "watch", "deploy", "install", "begin"}

primaryCtaRegex(t) ==
    \/ t[1] \in PrimaryStarts
    \/ \E p \in {<<"log", "in">>, <<"sign", "in">>, <<"sign", "up">>,
                 <<"get", "started">>, <<"talk", "to">>} : StartsWith(t, p)

\* the tiers with sales-led verbs above self-serve verbs
ctaPrioritySalesFirst(t) ==
    IF t = <<>> THEN 0
    ELSE IF \/ t[1] \in SalesLedStarts
            \/ StartsWith(t, <<"talk", "to">>) THEN 3
    ELSE IF \/ t[1] \in SelfServeStarts
            \/ StartsWith(t, <<"get", "started">>)
            \/ StartsWith(t, <<"sign", "up">>) THEN 2
    ELSE IF t[1] \in InfoStarts \/ StartsWith(t, <<"learn", "more">>) THEN 1
    ELSE IF primaryCtaRegex(t) THEN 1 ELSE 0

ctaPriority(t) ==
    IF t = <<>> THEN 0
    ELSE IF \/ t[1] \in SelfServeStarts
            \/ StartsWith(t, <<"get", "started">>)
            \/ StartsWith(t, <<"sign", "up">>) THEN 3
    ELSE IF \/ t[1] \in SalesLedStarts
            \/ StartsWith(t, <<"talk", "to">>)
            \/ StartsWith(t, <<"get", "demo">>) THEN 2
    ELSE IF \/ t[1] \in InfoStarts
            \/ \E p \in {<<"learn", "more">>, <<"see", "more">>,
                         <<"view", "details">>} : StartsWith(t, p) THEN 1
    ELSE IF primaryCtaRegex(t) THEN 1 ELSE 0

\* the comparator with the verb priorities the wrong way round
CtaCompareLowFirst(d, el, a, b) ==
    IF OAuthText(a.text) # OAuthText(b.text)
    THEN (IF OAuthText(a.text) THEN 1 ELSE -1)
    ELSE IF a.isButton # b.isButton
    THEN (IF a.isButton THEN -1 ELSE 1)
    ELSE IF ctaPriority(a.text) # ctaPriority(b.text)
    THEN ctaPriority(a.text) - ctaPriority(b.text)
    ELSE IF el # 0 /\ Abs(Abs(a.top - (Bottom(d.nodes[el]) + 20))
                          - Abs(b.top - (Bottom(d.nodes[el]) + 20))) > 30
    THEN Abs(a.top - (Bottom(d.nodes[el]) + 20))
         - Abs(b.top - (Bottom(d.nodes[el]) + 20))
    ELSE IF a.area # b.area THEN b.area - a.area
    ELSE a.left - b.left

\* the comparator with links in front of buttons
CtaCompareLinksFirst(d, el, a, b) ==
    IF OAuthText(a.text) # OAuthText(b.text)
    THEN (IF OAuthText(a.text) THEN 1 ELSE -1)
    ELSE IF a.isButton # b.isButton
    THEN (IF a.isButton THEN 1 ELSE -1)
    ELSE IF ctaPriority(a.text) # ctaPriority(b.text)
    THEN ctaPriority(b.text) - ctaPriority(a.text)
    ELSE IF el # 0 /\ Abs(Abs(a.top - (Bottom(d.nodes[el]) + 20))
                          - Abs(b.top - (Bottom(d.nodes[el]) + 20))) > 30
    THEN Abs(a.top - (Bottom(d.nodes[el]) + 20))
         - Abs(b.top - (Bottom(d.nodes[el]) + 20))
    ELSE IF a.area # b.area THEN b.area - a.area
    ELSE a.left - b.left

\* the comparator of heroCtaCandidates.sort; el is headlineEl, 0 for null
CtaCompare(d, el, a, b) ==
    LET idealTop == Bottom(d.nodes[el]) + 20
        aDist == Abs(a.top - idealTop)
        bDist == Abs(b.top - idealTop)
    IN IF OAuthText(a.text) # OAuthText(b.text)
       THEN (IF OAuthText(a.text) THEN 1 ELSE -1)
       ELSE IF a.isButton # b.isButton
       THEN (IF a.isButton THEN -1 ELSE 1)
       ELSE IF ctaPriority(a.text) # ctaPriority(b.text)
       THEN ctaPriority(b.text) - ctaPriority(a.text)
       ELSE IF el # 0 /\ Abs(aDist - bDist) > 30 THEN aDist - bDist
       ELSE IF a.area # b.area THEN b.area - a.area
       ELSE a.left - b.left

Perms(n) ==
    {p \in [1..n -> 1..n] : \A i, j \in 1..n : p[i] = p[j] => i = j}

\* a comparator is consistent when "not after" is transitive
Consistent(d, el, c) ==
    \A i, j, k \in 1..Len(c) :
       CtaCompare(d, el, c[i], c[j]) <= 0 /\ CtaCompare(d, el, c[j], c[k]) <= 0
          => CtaCompare(d, el, c[i], c[k]) <= 0

\* the first three keys of the comparator, which are transitive on their own
CtaClass(a) ==
    <<IF OAuthText(a.text) THEN 1 ELSE 0,
      IF a.isButton THEN 0 ELSE 1,
      3 - ctaPriority(a.text)>>
ClassBefore(x, y) ==
    \/ x[1] < y[1]
    \/ x[1] = y[1] /\ x[2] < y[2]
    \/ x[1] = y[1] /\ x[2] = y[2] /\ x[3] < y[3]

\* What Array.prototype.sort may leave, as permutations of the input: with a
\* consistent comparator the one stable order; otherwise the order is
\* implementation-defined, and every order that keeps the keys that compare
\* transitively sorted is taken as possible.
SortPerms(d, el, c) ==
    LET n == Len(c)
        stable == {p \in Perms(n) : \A i, j \in 1..n : i < j =>
                     \/ CtaCompare(d, el, c[p[i]], c[p[j]]) < 0
                     \/ CtaCompare(d, el, c[p[i]], c[p[j]]) = 0 /\ p[i] < p[j]}
        loose == {p \in Perms(n) : \A i, j \in 1..n : i < j =>
                     ~ClassBefore(CtaClass(c[p[j]]), CtaClass(c[p[i]]))}
    IN IF Consistent(d, el, c) THEN stable ELSE loose

\* perms in lexicographic order
PermBefore(p, q) ==
    \E i \in DOMAIN p : p[i] < q[i] /\ \A j \in 1..(i - 1) : p[j] = q[j]

\* The order one build leaves is a function of the input: build e takes the
\* outcome of rank e (mod the number of outcomes).
PickPerm(P, e) ==
    CHOOSE p \in P :
       Cardinality({q \in P : PermBefore(q, p)}) = (e - 1) % Cardinality(P)

\* heroCtaCandidates after the sort
SortedCtas(d, el, c, e) ==
    LET p == PickPerm(SortPerms(d, el, c), e)
    IN [k \in 1..Len(c) |-> c[p[k]]]

\* heroCtaCandidates before the sort
HeroCtaInput(d, hb, el) ==
    SelectSeq(filteredCtas(d, hb), LAMBDA c : NearHeadline(d, el, c))

Texts(cs) == [k \in 1..Len(cs) |-> cs[k].text]

ctaDetails(cs) ==
    [k \in 1..Len(cs) |->
       [text |-> cs[k].text,
        type |-> IF cs[k].isButton THEN "button" ELSE "link",
        position |-> [top |-> cs[k].top, left |-> cs[k].left]]]

\* the text of the last candidate
primaryCtaLast(cs) == IF cs = <<>> THEN NullText ELSE cs[Len(cs)].text

\* heroCtaCandidates[0]?.text || null
primaryCta(cs) == IF cs = <<>> THEN NullText ELSE cs[1].text

\* -------------------------------------------------------------- hero text
\* heroTextLeaves (lines 320-328); el is headlineEl, 0 for null
heroTextLeaves(d, hb, el) ==
    LET contentTop == IF el = 0 THEN 0 ELSE d.nodes[el].top - 20
    IN SelectSeq(heroTextNodes(d, hb), LAMBDA i :
          /\ d.nodes[i].top >= contentTop
          /\ ~(d.nodes[i].tag \in {"DIV", "SPAN"}
               /\ \E j \in Descendants(d, i) :
                     d.nodes[j].tag \in {"H1", "H2", "H3", "P"}))

\* the leading "skip to content" text the replace() of line 335 removes
SkipPrefixes ==
    {<<"skip", "to", "main", "content">>, <<"skip", "to", "content">>,
     <<"skip", "to", "navigation">>, <<"skip", "content">>,
     <<"skip", "navigation">>}
StripSkip(t) ==
    LET hits == {p \in SkipPrefixes : StartsWith(t, p)}
    IN IF hits = {} THEN t
       ELSE LET p == CHOOSE q \in hits : \A r \in hits : Len(r) <= Len(q)
            IN SubSeq(t, Len(p) + 1, Len(t))

heroText(d, hb, el) ==
    LET leaves == heroTextLeaves(d, hb, el)
    IN StripSkip(Flatten([k \in 1..Len(leaves) |-> InnerText(d, leaves[k])]))

\* ------------------------------------------------------------ subheadline
\* the whole-text alternatives of the regular expression of line 442
CtaLikeTexts ==
    {<<"sign", "up">>, <<"signup">>, <<"sign", "in">>, <<"signin">>,
     <<"log", "in">>, <<"login">>, <<"contact", "sales">>,
     <<"talk", "to", "sales">>, <<"get", "started">>, <<"start">>, <<"try">>,
     <<"request">>, <<"book">>, <<"schedule">>, <<"join">>, <<"buy">>,
     <<"explore">>, <<"learn", "more">>}

\* ctas is the ranked list of CTA texts
isLikelyCtaText(ctas, text) ==
    /\ text # <<>>
    /\ \/ \E k \in 1..Len(ctas) : HasPhrase(text, ctas[k])
       \/ Len(text) <= 4 /\ text \in CtaLikeTexts

Interactive(n) == n.tag \in {"BUTTON", "A"} \/ "role=button" \in n.attrs

InRegion(d, hb, i) ==
    inHero(d.nodes[i], hb) /\ ~inNavOrHeader(d, i) /\ ~inFramerNavOrFooter(d, i)

SubText(ctas, text) ==
    /\ Chars(text) >= 10
    /\ Len(text) >= 3
    /\ ~isLikelyCtaText(ctas, text)

isSubCandidate(d, hb, ctas, i) ==
    /\ i # 0
    /\ InRegion(d, hb, i)
    /\ SubText(ctas, InnerText(d, i))
    /\ Closest(d, i, Interactive) = 0

\* isSubCandidate(el) && !el.querySelector("button, a, [role='button']")
CleanSub(d, hb, ctas, i) ==
    /\ isSubCandidate(d, hb, ctas, i)
    /\ ~\E j \in Descendants(d, i) : Interactive(d.nodes[j])

LeastOrNone(S) == IF S = {} THEN 0 ELSE Least(S)

\* the first following sibling inside the hero and outside nav, 0 for none
NextInRegion(d, hb, i) ==
    LeastOrNone({j \in 1..Len(d.nodes) :
                    /\ d.nodes[j].parent = d.nodes[i].parent
                    /\ j > i
                    /\ InRegion(d, hb, j)})

\* the sibling itself, or the first p, h2 or h3 below it; 0 for no match
CleanOrNone(d, hb, ctas, i) ==
    IF i # 0 /\ CleanSub(d, hb, ctas, i) THEN i ELSE 0
NestedMatch(d, hb, ctas, next) ==
    CleanOrNone(d, hb, ctas,
        LeastOrNone({j \in Descendants(d, next) :
                        d.nodes[j].tag \in {"P", "H2", "H3"}}))
SiblingMatch(d, hb, ctas, next) ==
    IF next = 0 THEN 0
    ELSE IF CleanSub(d, hb, ctas, next) THEN next
    ELSE NestedMatch(d, hb, ctas, next)

\* Strategy 3 for one ancestor: the paragraph closest to the headline top
LongParagraph(text) == Chars(text) >= 20 /\ Len(text) >= 5
Paragraphs(d, hb, ctas, el, ancestor) ==
    {j \in Descendants(d, ancestor) :
        /\ d.nodes[j].tag = "P"
        /\ j # el
        /\ CleanSub(d, hb, ctas, j)
        /\ d.nodes[j].top <= Bottom(d.nodes[el]) + 200
        /\ Bottom(d.nodes[j]) >= d.nodes[el].top - 50
        /\ LongParagraph(InnerText(d, j))}
TopDistance(d, el, j) == Abs(d.nodes[j].top - d.nodes[el].top)
Nearest(d, el, ps) ==
    LeastOrNone({j \in ps :
                   \A k \in ps : TopDistance(d, el, j) <= TopDistance(d, el, k)})
NearParagraph(d, hb, ctas, el, ancestor) ==
    Nearest(d, el, Paragraphs(d, hb, ctas, el, ancestor))

RECURSIVE FirstNearParagraph(_, _, _, _, _)
FoundOrNext(d, hb, ctas, el, ancestors, found) ==
    IF found # 0 THEN found
    ELSE FirstNearParagraph(d, hb, ctas, el, Tail(ancestors))
FirstNearParagraph(d, hb, ctas, el, ancestors) ==
    IF ancestors = <<>> THEN 0
    ELSE FoundOrNext(d, hb, ctas, el, ancestors,
                     NearParagraph(d, hb, ctas, el, Head(ancestors)))

FirstThree(up) == SubSeq(up, 1, Min(3, Len(up)))
ParentSibling(d, hb, ctas, parent) ==
    IF parent = 0 THEN 0
    ELSE SiblingMatch(d, hb, ctas, NextInRegion(d, hb, parent))
OrStrategy3(d, hb, ctas, el, s2) ==
    IF s2 # 0 THEN s2
    ELSE FirstNearParagraph(d, hb, ctas, el, FirstThree(Tail(Chain(d, el))))
OrStrategy2(d, hb, ctas, el, s1) ==
    IF s1 # 0 THEN s1
    ELSE OrStrategy3(d, hb, ctas, el,
                     ParentSibling(d, hb, ctas, d.nodes[el].parent))

\* the element siblingSubheadline returns, 0 for null
siblingSubheadline(d, hb, ctas, el) ==
    IF el = 0 THEN 0
    ELSE OrStrategy2(d, hb, ctas, el,
                     SiblingMatch(d, hb, ctas, NextInRegion(d, hb, el)))

\* the candidates of lines 550-577 before the sort
FallbackText(ctas, text) ==
    /\ Chars(text) >= 12
    /\ Len(text) >= 4
    /\ ~looksLikeNavText(text)
    /\ ~isLikelyCtaText(ctas, text)
NearHeadlineText(n, h, hs) ==
    /\ n.top >= h.top - 50
    /\ n.top <= Bottom(h) + 320
    /\ (hs = 0 \/ n.fontSize <= hs - 4)
    /\ n.fontSize >= 12
    /\ 100 * n.fontSize >= 32 * hs
SubCandidates(d, hb, ctas, el) ==
    SelectSeq(heroTextNodes(d, hb), LAMBDA i :
          /\ i # el
          /\ Closest(d, i, Interactive) = 0
          /\ ~\E j \in Descendants(d, i) : Interactive(d.nodes[j])
          /\ FallbackText(ctas, InnerText(d, i))
          /\ (el = 0 \/ NearHeadlineText(d.nodes[i], d.nodes[el], d.nodes[el].fontSize)))

\* the comparator of lines 578-588; distances are doubled to stay integers
CenterDistance(d, el, a) ==
    Abs(2 * d.nodes[a].top - (d.nodes[el].top + Bottom(d.nodes[el])))
BySizeThenLength(d, a, b) ==
    IF d.nodes[a].fontSize # d.nodes[b].fontSize
    THEN d.nodes[b].fontSize - d.nodes[a].fontSize
    ELSE Chars(InnerText(d, a)) - Chars(InnerText(d, b))
ByDistance(d, a, b, aDist, bDist) ==
    IF Abs(aDist - bDist) > 40 THEN aDist - bDist ELSE BySizeThenLength(d, a, b)
SubCompare(d, el, a, b) ==
    IF el # 0
    THEN ByDistance(d, a, b, CenterDistance(d, el, a), CenterDistance(d, el, b))
    ELSE BySizeThenLength(d, a, b)

\* The elements that can come first out of the sort: the least one under a
\* consistent comparator, any of them when the comparator is not transitive.
SubConsistent(d, el, c) ==
    \A i, j, k \in 1..Len(c) :
        SubCompare(d, el, c[i], c[j]) <= 0 /\ SubCompare(d, el, c[j], c[k]) <= 0
           => SubCompare(d, el, c[i], c[k]) <= 0
Before(k, m, order) == order < 0 \/ (order = 0 /\ k <= m)
SubLeast(d, el, c) ==
    {c[k] : k \in {k \in 1..Len(c) : \A m \in 1..Len(c) :
                      Before(k, m, SubCompare(d, el, c[k], c[m]))}}
FirstOf(d, el, c) ==
    IF SubConsistent(d, el, c) THEN SubLeast(d, el, c) ELSE Range(c)
FallbackFirst(d, hb, ctas, el) == FirstOf(d, el, SubCandidates(d, hb, ctas, el))

\* the element of rank (e - 1) modulo the size of the set
PickFirst(firsts, e) ==
    CHOOSE i \in firsts :
        Cardinality({j \in firsts : j < i}) = (e - 1) % Cardinality(firsts)
FallbackInnerText(d, firsts, e) ==
    IF firsts = {} THEN NullText ELSE InnerText(d, PickFirst(firsts, e))
SiblingOrFallback(d, hb, ctas, el, e, sib) ==
    IF sib # 0 THEN InnerText(d, sib)
    ELSE FallbackInnerText(d, FallbackFirst(d, hb, ctas, el), e)

\* subheadline after line 593, under build e
Subheadline(d, hb, ctas, el, e) ==
    SiblingOrFallback(d, hb, ctas, el, e, siblingSubheadline(d, hb, ctas, el))

\* ------------------------------------------------------------------ stack
\* const detectedStack = []
\* a detectedStack that outlives the call: the tags of the response before
LeftoverStack ==
    IF response.success THEN response.fingerprint.detected_stack ELSE <<>>
InitialDetectedStack == <<>>

\* The catalog in evaluation order: the tag a rule pushes and the tags that,
\* once pushed, keep the rule from pushing.  A rule's signature is exhibited
\* when the document carries the marker of that name.
StackRules ==
    <<[tag |-> "nextjs", unless |-> {"nextjs"}],
      [tag |-> "webflow", unless |-> {}],
      [tag |-> "framer", unless |-> {}],
      [tag |-> "gatsby", unless |-> {}],
      [tag |-> "nuxt", unless |-> {}],
      [tag |-> "remix", unless |-> {}],
      [tag |-> "astro", unless |-> {}],
      [tag |-> "hugo", unless |-> {}],
      [tag |-> "sveltekit", unless |-> {}],
      [tag |-> "wordpress", unless |-> {}],
      [tag |-> "shopify", unless |-> {}],
      [tag |-> "wix", unless |-> {}],
      [tag |-> "squarespace", unless |-> {}],
      [tag |-> "vitepress", unless |-> {}],
      [tag |-> "vue", unless |-> {"nuxt", "vitepress"}],
      [tag |-> "react", unless |-> {"nextjs", "gatsby", "remix"}],
      [tag |-> "angular", unless |-> {}],
      [tag |-> "tailwind", unless |-> {}],
      [tag |-> "bootstrap", unless |-> {}],
      [tag |-> "material-ui", unless |-> {}],
      [tag |-> "chakra-ui", unless |-> {}],
      [tag |-> "radix", unless |-> {}],
      [tag |-> "ant-design", unless |-> {}],
      [tag |-> "emotion", unless |-> {}],
      [tag |-> "styled-components", unless |-> {}],
      [tag |-> "css-modules", unless |-> {}],
      [tag |-> "vercel", unless |-> {}],
      [tag |-> "netlify", unless |-> {}],
      [tag |-> "cloudflare", unless |-> {}],
      [tag |-> "aws-amplify", unless |-> {}],
      [tag |-> "gsap", unless |-> {}],
      [tag |-> "lottie", unless |-> {}],
      [tag |-> "framer-motion", unless |-> {"framer"}]>>

\* the signature of a rule: a marker of the page, or, for framer-motion, an
\* element with data-framer-component-type
Exhibits(d, tag) ==
    \/ tag \in d.markers
    \/ tag = "framer-motion"
       /\ \E i \in 1..Len(d.nodes) : "RichTextContainer" \in d.nodes[i].attrs

\* a rule without its guard on the tags detected so far
RuleFiresUnguarded(d, rule, stack) == Exhibits(d, rule.tag)

RECURSIVE StackNewestFirst(_, _, _)
\* the rules run with each tag put in front of the tags detected so far
StackNewestFirst(d, k, stack) ==
    IF k > Len(StackRules) THEN stack
    ELSE StackNewestFirst(d, k + 1,
            IF Exhibits(d, StackRules[k].tag)
               /\ Range(stack) \cap StackRules[k].unless = {}
            THEN <<StackRules[k].tag>> \o stack ELSE stack)

\* whether a rule pushes its tag onto the stack detected so far
RuleFires(d, rule, stack) ==
    Exhibits(d, rule.tag) /\ Range(stack) \cap rule.unless = {}

RECURSIVE RunStackRules(_, _, _)
RunStackRules(d, k, stack) ==
    IF k > Len(StackRules) THEN stack
    ELSE RunStackRules(d, k + 1,
            IF RuleFires(d, StackRules[k], stack)
            THEN Append(stack, StackRules[k].tag) ELSE stack)

\* --------------------------------------------------- promotion and commerce
\* The vocabularies below list the words of the documents that the regular
\* expression of the same name matches.
Join(ts) == Flatten(SelectSeq(ts, LAMBDA t : ~Falsy(t)))

PricingWords == {"pricing", "plans", "billing"}
hasPricingTokens(head, sub, ctas) ==
    LET t == Join(<<head, sub>> \o ctas)
    IN \/ HasWord(t, PricingWords)
       \/ \E p \in {<<"per", "month">>, <<"per", "year">>, <<"free", "trial">>} :
             HasPhrase(t, p)

PromoWords == {"sale", "clearance", "discount", "deal", "deals", "hurry", "20%off"}
promoRegex(t) ==
    \/ HasWord(t, PromoWords)
    \/ \E p \in {<<"limited", "time">>, <<"20%", "off">>, <<"ends", "today">>,
                 <<"last", "chance">>} : HasPhrase(t, p)

TransactionalStarts ==
    {<<"shop", "now">>, <<"buy", "now">>, <<"add", "to", "cart">>,
     <<"order", "now">>, <<"get", "the", "deal">>, <<"grab", "it">>,
     <<"grab", "yours">>, <<"shop", "all">>, <<"shop", "the", "sale">>,
     <<"view", "deal">>}
transactionalCtaRegex(t) == \E p \in TransactionalStarts : StartsWith(t, p)

PriceWords == {"$5", "$49", "9.99", "20%off"}
priceRegex(t) == HasWord(t, PriceWords) \/ HasPhrase(t, <<"20%", "off">>)

InHeroVisible(d, hb, i) == inHero(d.nodes[i], hb) /\ isVisible(d.nodes[i])

priceCount(d, hb) ==
    Cardinality({i \in 1..Len(d.nodes) :
        /\ InHeroVisible(d, hb, i)
        /\ Chars(InnerText(d, i)) < 30
        /\ priceRegex(InnerText(d, i))
        /\ Children(d, i) = <<>>})

\* the first element in document order that satisfies Sel, 0 when none
QueryFirst(d, Sel(_)) ==
    LET hits == {i \in 1..Len(d.nodes) : Sel(d.nodes[i])}
    IN IF hits = {} THEN 0 ELSE CHOOSE i \in hits : \A j \in hits : i <= j

\* cls holds the words of class and id
TimerSelectors ==
    <<{"countdown"}, {"timer"}, {"clock"}>>
hasCountdown(d, hb) ==
    \/ \E k \in 1..Len(TimerSelectors) :
          LET el == QueryFirst(d, LAMBDA n : n.cls \cap TimerSelectors[k] # {})
          IN el # 0 /\ InHeroVisible(d, hb, el)
    \/ LET el == QueryFirst(d, LAMBDA n : "data-countdown" \in n.attrs)
       IN el # 0 /\ InHeroVisible(d, hb, el)
    \/ \E i \in 1..Len(d.nodes) :
          /\ d.nodes[i].tag \in {"SPAN", "DIV", "P"}
          /\ InHeroVisible(d, hb, i)
          /\ Chars(InnerText(d, i)) < 20
          /\ HasWord(InnerText(d, i), {"00:12:34"})

ButtonLike(n) == n.tag \in {"BUTTON", "A"} \/ "role=button" \in n.attrs

AddToCartTexts ==
    {<<"add", "to", "cart">>, <<"add", "to", "bag">>, <<"add", "to", "basket">>,
     <<"buy", "now">>, <<"shop", "now">>, <<"quick", "add">>, <<"quick", "shop">>}
addToCartCount(d, hb) ==
    Cardinality({i \in 1..Len(d.nodes) :
        /\ ButtonLike(d.nodes[i])
        /\ InHeroVisible(d, hb, i)
        /\ InnerText(d, i) \in AddToCartTexts})

\* productCardSelectors: the class words that contain product, item-card,
\* sku or card, and the three data attributes
CardClassWords == {"product", "products", "product-card", "item-card", "sku",
                   "card", "cards", "card-body"}
CardAttrs == {"data-product", "data-sku", "data-item"}
MatchesCardSelector(n) ==
    n.cls \cap CardClassWords # {} \/ n.attrs \cap CardAttrs # {}

candidateCards(d, hb) ==
    {i \in 1..Len(d.nodes) :
        MatchesCardSelector(d.nodes[i]) /\ InHeroVisible(d, hb, i)}

\* hasImg && hasPrice && cardText.length < 300
LooksLikeProductCard(d, i) ==
    /\ \E j \in Descendants(d, i) : d.nodes[j].tag = "IMG"
    /\ priceRegex(InnerText(d, i))
    /\ Chars(InnerText(d, i)) < 300

productCardCount(d, hb) ==
    Cardinality({i \in candidateCards(d, hb) : LooksLikeProductCard(d, i)})

CategoryClassWords == {"category", "categories", "department", "browse"}
hasCategoryNav(d, hb) ==
    \E i \in 1..Len(d.nodes) :
       /\ \/ d.nodes[i].cls \cap CategoryClassWords # {}
          \/ "data-category" \in d.nodes[i].attrs
          \/ d.nodes[i].tag = "NAV" /\ "shop" \in d.nodes[i].cls
          \/ d.nodes[i].tag \in {"NAV", "UL"}
             /\ \E j \in ChainSet(d, i) \ {i} : "sidebar" \in d.nodes[j].cls
       /\ (inHero(d.nodes[i], hb) \/ d.nodes[i].top < d.vh)
       /\ Cardinality({j \in Descendants(d, i) : d.nodes[j].tag = "A"}) >= 3

DiscoveryWords == {"trending", "curated", "recommended", "explore", "discover"}
discoveryRegex(t) ==
    HasWord(t, DiscoveryWords) \/ HasPhrase(t, <<"new", "arrivals">>)

BrandCampaignWords == {"collection", "campaign", "introducing", "spring",
                       "summer", "winter", "holiday", "launch", "exclusive"}
brandCampaignRegex(t) == HasWord(t, BrandCampaignWords)

TrustWords == {"verified", "authentic"}
trustRegex(t) ==
    \/ HasWord(t, TrustWords)
    \/ \E p \in {<<"free", "shipping">>, <<"trusted", "by">>,
                 <<"easy", "returns">>} : HasPhrase(t, p)

TrustClassWords == {"trust", "badge", "guarantee", "secure", "verified",
                    "certification"}
trustBadgeCount(d, hb) ==
    Cardinality({i \in 1..Len(d.nodes) :
        d.nodes[i].cls \cap TrustClassWords # {} /\ InHeroVisible(d, hb, i)})

\* commerce only with add-to-cart buttons
isCommerceHeroWithCarts(cards, carts, price) == carts >= 2 /\ price
isCommerceHero(cards, carts, price) == cards >= 2 \/ (carts >= 2 /\ price)

\* ------------------------------------------------- showcase and demo signals
inFold(d, i) == Bottom(d.nodes[i]) > 0 /\ d.nodes[i].top < d.vh
InFoldVisible(d, i) == inFold(d, i) /\ isVisible(d.nodes[i])

heroCanvasElements(d, hb) ==
    {i \in 1..Len(d.nodes) : d.nodes[i].tag = "CANVAS" /\ InHeroVisible(d, hb, i)}

\* getContext("webgl2") || getContext("webgl") yields a context
hasWebGL(d, hb) ==
    \E i \in heroCanvasElements(d, hb) : "webgl" \in d.nodes[i].attrs

largeSvgCount(d, hb) ==
    Cardinality({i \in 1..Len(d.nodes) :
        /\ d.nodes[i].tag = "SVG"
        /\ InHeroVisible(d, hb, i)
        /\ d.nodes[i].width > 80
        /\ d.nodes[i].height > 80})

InteractiveClassWords == {"playground", "editor", "sandbox", "codepen", "repl",
                          "interactive"}
DemoClassWords == {"demo", "live-demo"}
hasInteractiveDemoBase(d) ==
    \/ d.rootCls \cap (InteractiveClassWords \cup DemoClassWords) # {}
    \/ \E i \in 1..Len(d.nodes) :
          \/ d.nodes[i].cls \cap InteractiveClassWords # {}
          \/ d.nodes[i].cls \cap DemoClassWords # {}
             /\ d.nodes[i].tag \notin {"BUTTON", "A"}
          \/ d.nodes[i].tag = "IFRAME" /\ "src*=codepen" \in d.nodes[i].attrs
          \/ "contenteditable=true" \in d.nodes[i].attrs

heroTextInputs(d) ==
    {i \in 1..Len(d.nodes) :
        /\ \/ d.nodes[i].tag = "TEXTAREA"
           \/ d.nodes[i].tag = "INPUT"
              /\ d.nodes[i].attrs \cap {"type=text", "type=search"} # {}
           \/ d.nodes[i].attrs \cap {"contenteditable=true", "role=textbox"} # {}
        /\ InFoldVisible(d, i)}

heroAudioElements(d) ==
    {i \in 1..Len(d.nodes) : d.nodes[i].tag = "AUDIO" /\ InFoldVisible(d, i)}

PlayWords == {"play", "listen", "preview", "sample"}
Focusable(n) == ButtonLike(n) \/ "tabindex" \in n.attrs

\* the text, the aria-label or the title names a play action
hasPlayButton(d) ==
    \E i \in 1..Len(d.nodes) :
       /\ Focusable(d.nodes[i])
       /\ InFoldVisible(d, i)
       /\ \/ HasWord(InnerText(d, i), PlayWords)
          \/ d.nodes[i].attrs \cap {"aria-label=play", "title=play"} # {}

playControlCandidates(d) ==
    {i \in 1..Len(d.nodes) :
        /\ Focusable(d.nodes[i])
        /\ InFoldVisible(d, i)
        /\ \/ "play" \in d.nodes[i].cls
           \/ d.nodes[i].attrs \cap
                {"aria-label=play", "data-testid=play", "data-action=play"} # {}}

OptionAttrs == {"role=listbox", "role=option", "role=tablist", "role=tab",
                "data-voice"}
VoiceClassWords == {"voice", "voice-card"}
heroOptions(d) ==
    {i \in 1..Len(d.nodes) :
        /\ \/ d.nodes[i].attrs \cap OptionAttrs # {}
           \/ d.nodes[i].cls \cap VoiceClassWords # {}
        /\ InFoldVisible(d, i)}

\* display is "flex" for a row flex box and "flex-column" for a column one
VisibleChildren(d, i) ==
    SelectSeq(Children(d, i), LAMBDA j : isVisible(d.nodes[j]))

AvatarClassWords == {"avatar", "voice", "voice-card", "speaker"}
rowContainers(d) ==
    {i \in 1..Len(d.nodes) :
        /\ d.nodes[i].tag \in {"DIV", "SECTION", "UL", "OL"}
        /\ InFoldVisible(d, i)
        /\ ~inNavOrHeader(d, i)
        /\ ~inFramerNavOrFooter(d, i)
        /\ d.nodes[i].display \in {"flex", "grid"}
        /\ Len(Children(d, i)) >= 4}

hasSelectableListFromRows(d) ==
    \E c \in rowContainers(d) :
       LET kids == VisibleChildren(d, c)
           qualifying == SelectSeq(kids, LAMBDA j :
               /\ \/ \E m \in Descendants(d, j) : d.nodes[m].tag \in {"IMG", "SVG"}
                  \/ d.nodes[j].cls \cap AvatarClassWords # {}
               /\ Len(InnerText(d, j)) > 0
               /\ Len(InnerText(d, j)) <= 4)
       IN Len(kids) >= 4 /\ Len(qualifying) >= 4

VoiceWords == {"voice", "voices", "tts"}
voiceRegex(t) == HasWord(t, VoiceWords) \/ HasPhrase(t, <<"text", "to", "speech">>)

looksLikeAudioDemo(textInput, selectable, voice, play, audio) ==
    \/ textInput /\ (selectable \/ voice \/ play \/ audio)
    \/ selectable /\ (play \/ audio \/ voice)
    \/ play /\ voice

animationStacks == {"gsap", "lottie", "framer-motion", "three"}
hasAnimationStack(stack) == Range(stack) \cap animationStacks # {}

ShowcaseWords == {"animate", "animation", "interactive", "playground", "demo",
                  "experiment", "creative", "motion", "3d", "webgl", "canvas",
                  "generative", "immersive", "experience"}
showcaseRegex(t) == HasWord(t, ShowcaseWords)

isShowcaseHero(anim, canvas, webgl, demo, nCtas, lang) ==
    (anim \/ canvas \/ webgl \/ demo) /\ (nCtas <= 1 \/ lang \/ demo)

\* ------------------------------------------------------------- error page
\* errorPageRegex, on whole words
ErrorWords == {"blocked", "forbidden", "404", "403", "500", "502", "503", "504",
               "captcha", "challenge", "cloudflare", "akamai"}
ErrorPhrases == {<<"something", "went", "wrong">>, <<"access", "denied">>,
                 <<"page", "not", "found">>, <<"service", "unavailable">>,
                 <<"try", "again", "later">>, <<"security", "check">>}
errorPageRegex(t) ==
    HasWord(t, ErrorWords) \/ \E p \in ErrorPhrases : HasPhrase(t, p)

\* the three patterns of errorPageReason, anywhere in the text
BotBlockText(t) ==
    \/ HasWord(t, {"blocked", "forbidden", "automated", "captcha", "challenge"})
    \/ \E p \in {<<"access", "denied">>, <<"bot", "detected">>,
                 <<"unusual", "traffic">>, <<"security", "check">>} : HasPhrase(t, p)
NotFoundText(t) == HasWord(t, {"404"}) \/ HasPhrase(t, <<"page", "not", "found">>)
ServerErrorText(t) ==
    \/ HasWord(t, {"500", "502", "503", "504"})
    \/ \E p \in {<<"service", "unavailable">>, <<"temporarily", "unavailable">>} :
          HasPhrase(t, p)

\* text.slice(0, 500): the words that fit whole into the first 500 characters
RECURSIVE TakeChars(_, _)
TakeChars(t, n) ==
    IF t = <<>> \/ WordChars(Head(t)) > n THEN <<>>
    ELSE <<Head(t)>> \o TakeChars(Tail(t), n - WordChars(Head(t)) - 1)

bodyText(d) == TakeChars(InnerText(d, 0), 500)

isErrorPage(d, allHeroText) ==
    \/ errorPageRegex(d.title)
    \/ errorPageRegex(bodyText(d))
    \/ errorPageRegex(allHeroText)

\* the patterns run on bodyText + pageTitle, joined without a space: a term
\* is found when it lies in one of the two
errorPageReasonUnguarded(d, isError) ==
    LET In(P(_)) == P(bodyText(d)) \/ P(d.title)
    IN IF In(BotBlockText) THEN "bot_blocked"
       ELSE IF In(NotFoundText) THEN "not_found"
       ELSE IF In(ServerErrorText) THEN "server_error"
       ELSE "unknown_error"

errorPageReason(d, isError) ==
    LET In(P(_)) == P(bodyText(d)) \/ P(d.title)
    IN IF ~isError THEN Null
       ELSE IF In(BotBlockText) THEN "bot_blocked"
       ELSE IF In(NotFoundText) THEN "not_found"
       ELSE IF In(ServerErrorText) THEN "server_error"
       ELSE "unknown_error"

\* -------------------------------------------------------- forms and layout
forms(d, hb) ==
    Select(d, LAMBDA i :
        /\ d.nodes[i].tag = "FORM"
        /\ inHero(d.nodes[i], hb)
        /\ ~inNavOrHeader(d, i)
        /\ ~inFramerNavOrFooter(d, i))

Inputs(d, f) == {j \in Descendants(d, f) : d.nodes[j].tag = "INPUT"}

RECURSIVE SumSeq(_)
SumSeq(q) == IF q = <<>> THEN 0 ELSE Head(q) + SumSeq(Tail(q))

formFields(d, hb) ==
    SumSeq([k \in 1..Len(forms(d, hb)) |-> Cardinality(Inputs(d, forms(d, hb)[k]))])

hasEmailOnly(d, hb) ==
    \E f \in Range(forms(d, hb)) :
       /\ Cardinality(Inputs(d, f)) = 1
       /\ \E j \in Inputs(d, f) : "type=email" \in d.nodes[j].attrs

IsPassword(n) == n.tag = "INPUT" /\ "type=password" \in n.attrs
hasPasswordField(d, hb) ==
    \/ \E f \in Range(forms(d, hb)) : \E j \in Descendants(d, f) : IsPassword(d.nodes[j])
    \/ \E i \in 1..Len(d.nodes) : IsPassword(d.nodes[i]) /\ InHeroVisible(d, hb, i)

\* oauthSelectors: a provider attribute on the element, or a provider image
\* inside a button or a link
OAuthAttrs == {"data-provider=google", "data-provider=apple",
               "aria-label=continue with google", "aria-label=sign in with google"}
hasOAuthElement(d) ==
    \E i \in 1..Len(d.nodes) :
       \/ d.nodes[i].attrs \cap OAuthAttrs # {}
       \/ /\ d.nodes[i].tag = "IMG"
          /\ d.nodes[i].src \in {"google", "apple"}
          /\ \E j \in ChainSet(d, i) \ {i} : d.nodes[j].tag \in {"BUTTON", "A"}

AuthVerbPairs == {<<"sign", "in">>, <<"sign", "up">>, <<"sign", "with">>,
                  <<"log", "in">>, <<"continue", "with">>, <<"connect", "with">>}
hasOAuthText(d, hb) ==
    \E i \in 1..Len(d.nodes) :
       /\ ButtonLike(d.nodes[i])
       /\ InHeroVisible(d, hb, i)
       /\ HasWord(InnerText(d, i), OAuthProviders)
       /\ \E p \in AuthVerbPairs : HasPhrase(InnerText(d, i), p)

\* grid_cards_in_fold
maxChildren(d, hb) ==
    LET grids == {i \in 1..Len(d.nodes) :
                     InHeroVisible(d, hb, i) /\ d.nodes[i].display = "grid"}
    IN IF grids = {} THEN 0
       ELSE CHOOSE m \in {Len(Children(d, g)) : g \in grids} :
               \A g \in grids : Len(Children(d, g)) <= m

hasFilters(d) ==
    \E i \in 1..Len(d.nodes) :
       \/ d.nodes[i].tag = "SELECT"
       \/ d.nodes[i].tag = "INPUT"
          /\ d.nodes[i].attrs \cap {"type=search", "type=checkbox"} # {}
       \/ d.nodes[i].attrs \cap {"role=listbox", "role=combobox"} # {}

layout(d, hb) ==
    LET top == Children(d, 0)
        rects == IF top = <<>> THEN <<>>
                 ELSE SelectSeq(Children(d, top[1]), LAMBDA i : InHeroVisible(d, hb, i))
    IN IF /\ \E k \in 1..Len(rects) : 10 * d.nodes[rects[k]].left < 4 * d.vw
          /\ \E k \in 1..Len(rects) : 10 * d.nodes[rects[k]].left > 6 * d.vw
       THEN "split" ELSE "single-column"

\* style.textAlign || null
alignment(d, h1) ==
    IF h1 = 0 \/ d.nodes[h1].textAlign = "" THEN Null ELSE d.nodes[h1].textAlign

\* ------------------------------------------------------------------ lists
listContainers(d, hb) ==
    Select(d, LAMBDA i :
        /\ d.nodes[i].tag \in {"UL", "OL"}
        /\ InHeroVisible(d, hb, i)
        /\ ~inNavOrHeader(d, i))

IconClassWords == {"icon", "icons", "icon-check"}
HasIconInside(d, i) ==
    \E j \in Descendants(d, i) :
       \/ d.nodes[j].tag \in {"SVG", "IMG", "I"}
       \/ d.nodes[j].cls \cap IconClassWords # {}
       \/ "data-icon" \in d.nodes[j].attrs

NavLinkTexts ==
    {<<w>> : w \in {"people", "learning", "jobs", "games", "career",
                    "productivity", "finance", "about", "blog", "pricing",
                    "contact", "support", "help", "resources", "docs",
                    "changelog", "status"}} \cup {<<"top", "content">>}

\* the record the map() of lines 1117-1148 builds for one <li>; el keeps the
\* identity of the object
ListItem(d, i) ==
    LET text == InnerText(d, i)
    IN [el |-> i,
        text |-> text,
        top |-> d.nodes[i].top,
        listStyle |-> d.nodes[i].listStyle,
        hasIcon |-> HasIconInside(d, i),
        wordCount |-> Len(text),
        looksLikeLogo |->
            /\ Len(text) <= 2
            /\ \E j \in Descendants(d, i) : d.nodes[j].tag \in {"IMG", "SVG"}
            /\ ~\E j \in Descendants(d, i) : d.nodes[j].tag \in {"P", "SPAN", "DIV"},
        isLegal |-> LegalText(text),
        isNavLink |-> text \in NavLinkTexts,
        inForm |-> Closest(d, i, LAMBDA n : n.tag = "FORM") # 0,
        isJustLink |->
            /\ Len(Children(d, i)) <= 1
            /\ \E j \in Descendants(d, i) : d.nodes[j].tag = "A"
            /\ Len(text) <= 3]

\* every <li> below each list container, container by container
listItems(d, hb) ==
    LET lists == listContainers(d, hb)
    IN Flatten([k \in 1..Len(lists) |->
          LET lis == SeqOfSet({j \in Descendants(d, lists[k]) : d.nodes[j].tag = "LI"})
          IN [m \in 1..Len(lis) |-> ListItem(d, lis[m])]])

PlainItem(item) ==
    ~item.isLegal /\ ~item.isNavLink /\ ~item.inForm /\ ~item.isJustLink

interactiveListItems(items) ==
    SelectSeq(items, LAMBDA it :
        /\ it.hasIcon
        /\ ~it.looksLikeLogo
        /\ PlainItem(it)
        /\ it.wordCount > 0 /\ it.wordCount <= 4
        /\ Chars(it.text) >= 2)

ActionHintStarts == {<<"no", "credit">>, <<"no", "card">>, <<"free">>,
                     <<"cancel", "anytime">>, <<"money", "back">>}
ShortActionStarts ==
    {<<w>> : w \in {"add", "import", "see", "view", "get", "try", "start",
                    "create", "install", "connect"}} \cup {<<"set", "up">>}

featureListItems(items, contentTop) ==
    SelectSeq(items, LAMBDA it :
        /\ Chars(it.text) >= 20 /\ HasLetters(it.text)
        /\ it.top >= contentTop
        /\ ~it.looksLikeLogo
        /\ PlainItem(it)
        /\ ~\E p \in ActionHintStarts : StartsWith(it.text, p)
        /\ ~(it.wordCount < 5 /\ \E p \in ShortActionStarts : StartsWith(it.text, p))
        /\ IF it.listStyle \notin {"", "none"} THEN it.wordCount >= 4
           ELSE it.hasIcon /\ it.wordCount >= 5)

virtualBulletCount(d, hb, bulletCount) ==
    LET containers == {i \in 1..Len(d.nodes) :
            /\ d.nodes[i].tag \in {"DIV", "SECTION"}
            /\ InHeroVisible(d, hb, i)
            /\ ~inNavOrHeader(d, i)
            /\ d.nodes[i].display \in {"flex", "flex-column", "grid"}
            /\ Len(Children(d, i)) >= 3}
        features(c) == Len(SelectSeq(VisibleChildren(d, c), LAMBDA j :
                            HasIconInside(d, j) /\ Len(InnerText(d, j)) >= 4))
        counts == {features(c) : c \in {x \in containers :
                      Len(VisibleChildren(d, x)) >= 3 /\ features(x) >= 3}}
    IN IF bulletCount >= 2 \/ counts = {} THEN 0
       ELSE CHOOSE m \in counts : \A n \in counts : n <= m

\* list_items_raw
listItemsRaw(items, features) ==
    LET rest == SelectSeq(items, LAMBDA it :
                    /\ it \notin Range(features)
                    /\ ~it.looksLikeLogo
                    /\ ~it.isLegal /\ ~it.isNavLink /\ ~it.isJustLink)
        all == features \o rest
        kept == SubSeq(all, 1, Min(20, Len(all)))
    IN [k \in 1..Len(kept) |-> [text |-> kept[k].text, wordCount |-> kept[k].wordCount]]

\* ------------------------------------------------------------------ media
\* mediaElements after the sort by descending area (stable)
Area(n) == n.width * n.height

RECURSIVE SortByArea(_, _)
SortByArea(d, q) ==
    IF q = <<>> THEN <<>>
    ELSE LET best == CHOOSE k \in 1..Len(q) :
                 /\ \A m \in 1..Len(q) : Area(d.nodes[q[m]]) <= Area(d.nodes[q[k]])
                 /\ \A m \in 1..(k - 1) : Area(d.nodes[q[m]]) < Area(d.nodes[q[k]])
         IN <<q[best]>> \o SortByArea(d, SubSeq(q, 1, best - 1) \o SubSeq(q, best + 1, Len(q)))

mediaElements(d, hb) ==
    SortByArea(d, Select(d, LAMBDA i :
                      /\ d.nodes[i].tag \in {"IMG", "VIDEO", "SVG", "CANVAS", "FIGURE"}
                      /\ InHeroVisible(d, hb, i)))

\* mediaElements[0], 0 for undefined
largestMedia(d, hb) ==
    IF mediaElements(d, hb) = <<>> THEN 0 ELSE mediaElements(d, hb)[1]

LowerTag(tag) ==
    CASE tag = "IMG" -> "img" [] tag = "VIDEO" -> "video" [] tag = "SVG" -> "svg"
      [] tag = "CANVAS" -> "canvas" [] tag = "FIGURE" -> "figure"
      [] tag = "DIV" -> "div" [] tag = "SECTION" -> "section"
      [] tag = "MAIN" -> "main" [] tag = "HEADER" -> "header"
      [] tag = "H1" -> "h1" [] tag = "P" -> "p" [] tag = "SPAN" -> "span"
      [] OTHER -> "element"

\* el.alt || el.getAttribute("aria-label") || null
heroImages(d, hb) ==
    LET big == SelectSeq(mediaElements(d, hb), LAMBDA i : Area(d.nodes[i]) > 400)
        kept == SubSeq(big, 1, Min(10, Len(big)))
    IN [k \in 1..Len(kept) |->
          [tag |-> LowerTag(d.nodes[kept[k]].tag),
           alt |-> IF d.nodes[kept[k]].alt = "" THEN Null ELSE d.nodes[kept[k]].alt,
           width |-> d.nodes[kept[k]].width,
           height |-> d.nodes[kept[k]].height,
           position |-> [top |-> d.nodes[kept[k]].top, left |-> d.nodes[kept[k]].left]]]

DashboardWords == {"dashboard", "analytics", "reporting", "metrics", "kpi",
                   "overview", "insights"}
hasDashboardKeywords(head, sub) == HasWord(Join(<<head, sub>>), DashboardWords)

\* the src and alt values that name a product screen
ProductUiNames == {"dashboard", "analytics", "report", "insight", "ui",
                   "product", "screenshot"}

heroMediaType(d, hb, dashboardKeywords) ==
    LET m == largestMedia(d, hb)
    IN IF /\ m # 0
          /\ 10000 * Area(d.nodes[m]) > 484 * d.vw * d.vh
          /\ d.nodes[m].tag \in {"IMG", "VIDEO"}
          /\ (d.nodes[m].src \in ProductUiNames
              \/ d.nodes[m].alt \in ProductUiNames
              \/ dashboardKeywords)
       THEN "product-ui" ELSE Null

leftCopyRightMedia(d, hb) ==
    /\ layout(d, hb) = "split"
    /\ largestMedia(d, hb) # 0
    /\ 2 * d.nodes[largestMedia(d, hb)].left > d.vw

\* ------------------------------------------------------------------ logos
DataContainer(n) ==
    \/ n.tag \in {"TABLE", "TR", "TD", "TH"}
    \/ n.attrs \cap {"role=grid", "role=row", "role=cell"} # {}

IconAlts == {"icon", "favicon"}
SvgIconAlts == IconAlts \cup {"arrow", "chevron", "check", "close", "menu", "hamburger"}

logoCandidate(d, hb) ==
    Select(d, LAMBDA i :
        /\ d.nodes[i].tag = "IMG"
        /\ InHeroVisible(d, hb, i)
        /\ Closest(d, i, DataContainer) = 0
        /\ d.nodes[i].width > 24 /\ d.nodes[i].width < 180
        /\ d.nodes[i].height < 80
        /\ d.nodes[i].alt \notin IconAlts)

svgLogoCandidates(d, hb) ==
    Select(d, LAMBDA i :
        /\ d.nodes[i].tag = "SVG"
        /\ InHeroVisible(d, hb, i)
        /\ ~inNavOrHeader(d, i)
        /\ Closest(d, i, LAMBDA n : \/ n.tag = "BUTTON"
                                    \/ (n.tag = "A" /\ "href" \in n.attrs)
                                    \/ "role=button" \in n.attrs) = 0
        /\ Closest(d, i, LAMBDA n : \/ n.tag = "TABLE"
                                    \/ n.attrs \cap {"role=grid", "role=row"} # {}) = 0
        /\ d.nodes[i].width > 24 /\ d.nodes[i].width < 180
        /\ d.nodes[i].height > 10 /\ d.nodes[i].height < 80
        /\ d.nodes[i].alt \notin SvgIconAlts)

allLogoCandidates(d, hb) == logoCandidate(d, hb) \o svgLogoCandidates(d, hb)

\* twice the centre line, so that halves stay integers
CenterY2(n) == 2 * n.top + n.height

RECURSIVE SortByCenter(_, _)
SortByCenter(d, q) ==
    IF q = <<>> THEN <<>>
    ELSE LET first == CHOOSE k \in 1..Len(q) :
                 /\ \A m \in 1..Len(q) : CenterY2(d.nodes[q[k]]) <= CenterY2(d.nodes[q[m]])
                 /\ \A m \in 1..(k - 1) : CenterY2(d.nodes[q[k]]) < CenterY2(d.nodes[q[m]])
         IN <<q[first]>> \o SortByCenter(d, SubSeq(q, 1, first - 1) \o SubSeq(q, first + 1, Len(q)))

\* the while loop of lines 1363-1381 from position i with the count so far
RECURSIVE LogoRows(_, _, _, _)
LogoRows(d, sorted, i, count) ==
    IF i > Len(sorted) THEN count
    ELSE LET rowY == CenterY2(d.nodes[sorted[i]])
             outside == {j \in i..Len(sorted) :
                            Abs(CenterY2(d.nodes[sorted[j]]) - rowY) >= 50}
             j == IF outside = {} THEN Len(sorted) + 1
                  ELSE CHOOSE x \in outside : \A y \in outside : x <= y
             lefts == {d.nodes[sorted[k]].left : k \in i..(j - 1)}
             spread == \E a \in lefts : \E b \in lefts : b - a > 200
         IN LogoRows(d, sorted, j,
                     IF j - i >= 3 /\ spread THEN Max(count, j - i) ELSE count)

logoContainerCount(d, hb) ==
    LET containers == {i \in 1..Len(d.nodes) :
            /\ d.nodes[i].tag \in {"DIV", "SECTION", "UL"}
            /\ InHeroVisible(d, hb, i)
            /\ ~inNavOrHeader(d, i)
            /\ d.nodes[i].display \in {"flex", "grid"}}
        mediaChildren(c) == SelectSeq(Children(d, c), LAMBDA j :
            /\ isVisible(d.nodes[j])
            /\ (d.nodes[j].tag = "IMG"
                \/ \E k \in Descendants(d, j) : d.nodes[k].tag \in {"IMG", "SVG"})
            /\ d.nodes[j].width < 200 /\ d.nodes[j].height < 100)
        counts == {Len(mediaChildren(c)) : c \in {x \in containers : Len(mediaChildren(x)) >= 3}}
    IN IF counts = {} THEN 0 ELSE CHOOSE m \in counts : \A n \in counts : n <= m

logoRowCount(d, hb) ==
    LET all == allLogoCandidates(d, hb)
        rows == IF Len(all) >= 3 THEN LogoRows(d, SortByCenter(d, all), 1, 0) ELSE 0
    IN IF rows < 3 THEN Max(rows, logoContainerCount(d, hb)) ELSE rows

logoCount(d, hb) ==
    IF logoRowCount(d, hb) > 0 THEN logoRowCount(d, hb)
    ELSE Len(allLogoCandidates(d, hb))

SocialProofPairs == {<<"trusted", "by">>, <<"loved", "by">>, <<"used", "by">>,
                     <<"chosen", "by">>, <<"backed", "by">>, <<"as", "seen", "in">>,
                     <<"as", "seen", "on">>, <<"featured", "in">>, <<"featured", "on">>,
                     <<"customers", "include">>, <<"partners", "include">>}
CrowdWords == {"users", "teams", "companies", "businesses", "organizations",
               "brands", "developers", "customers"}
\* words that are a number
NumberWords == {"404", "1234", "500"}
hasSocialProofText(t) ==
    \/ \E p \in SocialProofPairs : HasPhrase(t, p)
    \/ HasWord(t, {"powering"})
    \/ \E k \in 1..(Len(t) - 1) :
          /\ t[k + 1] \in NumberWords
          /\ t[k] \in {"join", "rated"}
    \/ \E k \in 1..(Len(t) - 1) : t[k] \in NumberWords /\ t[k + 1] \in CrowdWords

hasSocialProof(d, hb, t) == hasSocialProofText(t) \/ logoRowCount(d, hb) >= 3

\* "$5" style amounts, bare numbers of one to three digits, or a percent sign
MetricWords == {"$5", "404", "500", "%"}
metricsVisible(t) == HasWord(t, MetricWords)

\* ----------------------------------------------------------------- colour
\* getComputedStyle serialises every colour of the documents as rgb()/rgba(),
\* so parseRgba yields the record itself
parseRgba(c) == c

\* luminance thresholds, scaled by 10000 * 255
LumScaled(c) == 2126 * c.r + 7152 * c.g + 722 * c.b

\* colours whose exact luminance is 0.2 and whose double-precision value
\* (0.2126*r + 0.7152*g + 0.0722*b) / 255 rounds to 0.19999999999999998
RoundsBelowFifth == {<<51, 51, 51>>, <<34, 61, 2>>, <<116, 34, 28>>}

\* the colour of exact luminance 0.15 whose double-precision value is
\* 0.14999999999999997
RoundsBelowDark == {<<46, 39, 8>>}

\* bgLum < 0.2 as the double arithmetic of line 1636-1637 decides it
LumBelowFifth(c) ==
    \/ LumScaled(c) < 510000
    \/ <<c.r, c.g, c.b>> \in RoundsBelowFifth

\* textLum > 0.7
LumAboveSevenTenths(c) == LumScaled(c) > 1785000

Max3(a, b, c) == Max(a, Max(b, c))
Min3(a, b, c) == Min(a, Min(b, c))

\* Math.round(h * 60) for h = num / delta + offset, then h += 360 if negative
RoundDiv(num, den) == (2 * num + den) \div (2 * den)
HueOf(c, maxC, delta) ==
    IF maxC = c.r THEN RoundDiv(60 * (c.g - c.b), delta)
    ELSE IF maxC = c.g THEN RoundDiv(60 * (c.b - c.r), delta) + 120
    ELSE RoundDiv(60 * (c.r - c.g), delta) + 240
Wrap(raw) == IF raw < 0 THEN raw + 360 ELSE raw
Hue(c) ==
    Wrap(HueOf(c, Max3(c.r, c.g, c.b), Max3(c.r, c.g, c.b) - Min3(c.r, c.g, c.b)))

\* the hue names of lines 1484-1492
Shade(light, pale, full) == IF light THEN pale ELSE full
HueName(h, light) ==
    IF h < 15 \/ h >= 345 THEN Shade(light, "light_red", "red")
    ELSE IF h < 35 THEN Shade(light, "peach", "orange")
    ELSE IF h < 65 THEN Shade(light, "light_yellow", "yellow")
    ELSE IF h < 160 THEN Shade(light, "light_green", "green")
    ELSE IF h < 200 THEN Shade(light, "light_cyan", "cyan")
    ELSE IF h < 260 THEN Shade(light, "light_blue", "blue")
    ELSE IF h < 290 THEN Shade(light, "light_purple", "purple")
    ELSE Shade(light, "pink", "magenta")

ColorName(c, maxC, minC, lum) ==
    IF maxC <= 35 /\ maxC - minC <= 10 THEN "black"
    ELSE IF (lum < 382500 \/ <<c.r, c.g, c.b>> \in RoundsBelowDark)
            /\ maxC - minC < 40
    THEN "dark"
    ELSE IF minC >= 240 THEN "white"
    ELSE IF lum > 2295000 THEN "off_white"
    ELSE IF maxC - minC < 20 THEN Shade(lum > 1275000, "light_grey", "dark_grey")
    ELSE HueName(Hue(c), lum > 1530000)

classifyColor(c) ==
    ColorName(c, Max3(c.r, c.g, c.b), Min3(c.r, c.g, c.b), LumScaled(c))

\* the colour stops of a gradient, in textual order
gradientColors(n) == n.stops

\* null is the empty sequence here
firstGradientColor(n) ==
    IF gradientColors(n) = <<>> THEN <<>> ELSE <<gradientColors(n)[1]>>

\* the names of the stops with adjacent repeats dropped
AppendNew(names, name) ==
    IF names = <<>> \/ names[Len(names)] # name THEN Append(names, name) ELSE names
RECURSIVE StopNames(_, _)
StopNames(stops, names) ==
    IF stops = <<>> THEN names
    ELSE StopNames(Tail(stops), AppendNew(names, classifyColor(Head(stops))))

GradientTag(names) ==
    IF names = <<>> THEN <<>>
    ELSE SubSeq(names, 1, Min(3, Len(names))) \o <<"gradient">>
buildGradientTag(n) == GradientTag(StopNames(gradientColors(n), <<>>))

\* ------------------------------------------------------------ dark theme
NullColor == [r |-> -1, g |-> -1, b |-> -1, a |-> -1]
NoGradient == [present |-> FALSE, stops |-> <<>>]
NoTag == <<>>

EmptyThemeResult ==
    [is_dark |-> FALSE, hero_bg |-> NullColor, hero_bg_gradient |-> NoGradient,
     hero_bg_color_name |-> Null, hero_bg_gradient_tag |-> NoTag,
     hero_text_color |-> NullColor, sampled_element |-> NoTag]

\* the style the walk reads from an element; 0 is the body and -1 the html
\* element above it, which paints nothing of its own
StyleOf(d, e) ==
    IF e > 0 THEN [bg |-> d.nodes[e].bg, bgImage |-> d.nodes[e].bgImage,
                   stops |-> d.nodes[e].stops, tag |-> LowerTag(d.nodes[e].tag),
                   firstClass |-> d.nodes[e].firstClass]
    ELSE IF e = 0 THEN [bg |-> d.bodyBg, bgImage |-> "none", stops |-> <<>>,
                        tag |-> "body", firstClass |-> ""]
    ELSE [bg |-> Transparent, bgImage |-> "none", stops |-> <<>>,
          tag |-> "html", firstClass |-> ""]

\* document.elementFromPoint(x, y): -2 for null (a point outside the
\* viewport), else the last painted visible element whose box holds the
\* point, the body when there is none
Greatest(S) == CHOOSE i \in S : \A j \in S : j <= i
TopMost(hits) == IF hits = {} THEN 0 ELSE Greatest(hits)
elementFromPoint(d, x, y) ==
    IF x < 0 \/ y < 0 \/ x >= d.vw \/ y >= d.vh THEN -2
    ELSE TopMost({i \in 1..Len(d.nodes) :
                    /\ isVisible(d.nodes[i])
                    /\ \A j \in ChainSet(d, i) : d.nodes[j].display # "none"
                    /\ d.nodes[i].left <= x /\ x < d.nodes[i].left + d.nodes[i].width
                    /\ d.nodes[i].top <= y /\ y < Bottom(d.nodes[i])})

\* el, el.parentElement, ... ending with the body (0) and html (-1)
WalkChain(d, hit) == Chain(d, hit) \o <<0, -1>>

Stops(st) == st.bg # Transparent \/ st.bgImage # "none"

\* the element the while loop of lines 1593-1601 ends on (-2 for null) and
\* the style it read last
Painted(d, seen) == {k \in 1..Len(seen) : Stops(StyleOf(d, seen[k]))}
EndOf(d, chain, seen, found) ==
    IF found # {}
    THEN [el |-> seen[Least(found)], style |-> StyleOf(d, seen[Least(found)])]
    ELSE [el |-> IF Len(chain) > 10 THEN chain[11] ELSE -2,
          style |-> StyleOf(d, seen[Len(seen)])]
FirstTen(chain) == SubSeq(chain, 1, Min(10, Len(chain)))
Walk(d, chain, seen) == EndOf(d, chain, seen, Painted(d, seen))
WalkEnd(d, hit) ==
    IF hit = -1 THEN Walk(d, <<-1>>, <<-1>>)
    ELSE Walk(d, WalkChain(d, hit), FirstTen(WalkChain(d, hit)))

\* bgColor of lines 1620-1627, NullColor for null
BgColor(style) ==
    IF parseRgba(style.bg).a > 0 THEN parseRgba(style.bg)
    ELSE IF style.bgImage = "gradient" /\ style.stops # <<>> THEN style.stops[1]
    ELSE NullColor

SampledElement(el, style) ==
    IF el = -2 THEN NoTag
    ELSE IF style.firstClass = "" THEN <<style.tag>>
    ELSE <<style.tag, style.firstClass>>

\* the object of lines 1641-1650
ThemeResult(h, el, style, bgColor) ==
    [is_dark |-> /\ bgColor # NullColor
                 /\ bgColor.a # 0
                 /\ LumBelowFifth(bgColor)
                 /\ LumAboveSevenTenths(h.color),
     hero_bg |-> style.bg,
     hero_bg_gradient |->
         IF style.bgImage = "gradient"
         THEN [present |-> TRUE, stops |-> style.stops] ELSE NoGradient,
     hero_bg_color_name |->
         IF bgColor # NullColor THEN classifyColor(bgColor) ELSE Null,
     hero_bg_gradient_tag |->
         IF style.bgImage = "gradient" THEN buildGradientTag(style) ELSE NoTag,
     hero_text_color |-> h.color,
     sampled_element |-> SampledElement(el, style)]

Sampled(h, end) == ThemeResult(h, end.el, end.style, BgColor(end.style))
FromHit(d, h, hit) ==
    IF hit = -2 THEN EmptyThemeResult ELSE Sampled(h, WalkEnd(d, hit))
SampleAt(d, h) ==
    FromHit(d, h, elementFromPoint(d, Max(10, h.left - 30),
                                   Max(10, (2 * h.top + h.height) \div 2)))
darkThemeResult(d, el) ==
    IF el = 0 THEN EmptyThemeResult ELSE SampleAt(d, d.nodes[el])

\* ------------------------------------------------------------ the result
\* the locals of lines 1000-1180 behind has_interactive_demo and
\* interactive_debug; items is listItems
DemoDebug(inputs, audio, playButton, candidates, options, rows, fromRows, fromItems, voice, base, selectable, playControl, audioDemo) ==
    [has_text_input |-> inputs # {},
     text_input_count |-> Cardinality(inputs),
     has_audio_element |-> audio # {},
     audio_count |-> Cardinality(audio),
     has_play_button |-> playButton,
     has_play_control |-> playControl,
     play_control_candidates |-> Cardinality(candidates),
     selectable_option_count |-> Cardinality(options),
     has_selectable_list |-> selectable \/ fromItems,
     row_container_count |-> Cardinality(rows),
     has_selectable_list_from_rows |-> fromRows,
     has_selectable_list_from_items |-> fromItems,
     has_voice_language |-> voice,
     has_interactive_demo_base |-> base,
     looks_like_audio_demo |-> audioDemo,
     has_interactive_demo |->
         base \/ audioDemo \/ (inputs # {} /\ (fromItems \/ voice))]
DemoWithAudio(inputs, audio, playButton, candidates, options, rows, fromRows, fromItems, voice, base, selectable, playControl) ==
    DemoDebug(inputs, audio, playButton, candidates, options, rows, fromRows,
              fromItems, voice, base, selectable, playControl,
              looksLikeAudioDemo(inputs # {}, selectable, voice, playControl,
                                 audio # {}))
DemoParts(inputs, audio, playButton, candidates, options, rows, fromRows, fromItems, voice, base) ==
    DemoWithAudio(inputs, audio, playButton, candidates, options, rows, fromRows,
                  fromItems, voice, base,
                  Cardinality(options) >= 3 \/ fromRows,
                  playButton \/ candidates # {})
InteractiveDebug(d, allHeroText, items) ==
    DemoParts(heroTextInputs(d), heroAudioElements(d), hasPlayButton(d),
              playControlCandidates(d), heroOptions(d), rowContainers(d),
              hasSelectableListFromRows(d),
              Len(interactiveListItems(items)) >= 4,
              voiceRegex(allHeroText), hasInteractiveDemoBase(d))
EarlyAndDebug(debug) ==
    [early |-> debug.has_interactive_demo_base \/ debug.looks_like_audio_demo,
     debug |-> debug]
DemoSignals(d, allHeroText, items) ==
    EarlyAndDebug(InteractiveDebug(d, allHeroText, items))

\* Number(heroHeightRatio.toFixed(2)), in hundredths
heroHeightRatio(d, hb) == Min(100, (200 * hb + d.vh) \div (2 * d.vh))

\* the fields of the object literal of lines 1662-1741
FingerprintFields(d, hb, sel, cs, sub, stack, ctas, allHeroText, demo, resolvedHeadline, hasPromoLanguage, hasTransactionalCta, totalBulletCount, dashboardKeywords, mediaType, theme, features, items, images) ==
    [layout |-> layout(d, hb),
     alignment |-> alignment(d, sel.h1),
     hero_height_ratio |-> heroHeightRatio(d, hb),
     headline |-> IF Falsy(resolvedHeadline) THEN NullText ELSE resolvedHeadline,
     subheadline |-> sub,
     headline_word_count |->
         IF Falsy(resolvedHeadline) THEN 0 ELSE Len(resolvedHeadline),
     cta_count |-> Len(ctas),
     primary_cta_text |-> primaryCta(cs),
     ctas |-> ctas,
     cta_details |-> ctaDetails(cs),
     has_form |-> forms(d, hb) # <<>>,
     form_fields_count |-> formFields(d, hb),
     has_email_only |-> hasEmailOnly(d, hb),
     has_password_field |-> hasPasswordField(d, hb),
     has_oauth |-> hasOAuthElement(d) \/ hasOAuthText(d, hb),
     grid_cards_in_fold |-> maxChildren(d, hb),
     has_filters |-> hasFilters(d),
     detected_stack |-> stack,
     page_text |-> allHeroText,
     has_pricing_tokens |-> hasPricingTokens(sel.headline, sub, ctas),
     has_promotion_signals |->
         hasPromoLanguage \/ (hasTransactionalCta /\ priceRegex(allHeroText)),
     has_promo_language |-> hasPromoLanguage,
     has_transactional_cta |-> hasTransactionalCta,
     has_price_display |-> priceRegex(allHeroText),
     price_count |-> priceCount(d, hb),
     has_countdown |-> hasCountdown(d, hb),
     add_to_cart_count |-> addToCartCount(d, hb),
     product_card_count |-> productCardCount(d, hb),
     has_category_nav |-> hasCategoryNav(d, hb),
     has_discovery_language |-> discoveryRegex(allHeroText),
     has_brand_campaign_language |-> brandCampaignRegex(allHeroText),
     has_trust_signals |-> trustRegex(allHeroText),
     trust_badge_count |-> trustBadgeCount(d, hb),
     is_commerce_hero |-> isCommerceHero(productCardCount(d, hb),
                                         addToCartCount(d, hb),
                                         priceRegex(allHeroText)),
     has_canvas |-> heroCanvasElements(d, hb) # {},
     has_webgl |-> hasWebGL(d, hb),
     large_svg_count |-> largeSvgCount(d, hb),
     has_interactive_demo |-> demo.debug.has_interactive_demo,
     has_animation_stack |-> hasAnimationStack(stack),
     has_showcase_language |-> showcaseRegex(allHeroText),
     is_showcase_hero |-> isShowcaseHero(hasAnimationStack(stack),
                                         heroCanvasElements(d, hb) # {},
                                         hasWebGL(d, hb), demo.early, Len(ctas),
                                         showcaseRegex(allHeroText)),
     is_error_page |-> isErrorPage(d, allHeroText),
     error_page_reason |-> errorPageReason(d, isErrorPage(d, allHeroText)),
     bullet_count |-> totalBulletCount,
     feature_bullet_count |-> totalBulletCount,
     has_feature_bullets |-> totalBulletCount >= 2,
     total_lists_in_hero |-> Len(listContainers(d, hb)),
     has_dashboard_preview |-> mediaType = "product-ui" /\ dashboardKeywords,
     has_dashboard_keywords |-> dashboardKeywords,
     has_social_proof |-> hasSocialProof(d, hb, allHeroText),
     logo_count |-> logoCount(d, hb),
     left_copy_right_media |-> leftCopyRightMedia(d, hb),
     dark_theme_hero |-> theme.is_dark,
     hero_bg |-> theme.hero_bg,
     hero_bg_gradient |-> theme.hero_bg_gradient,
     hero_bg_color_name |-> theme.hero_bg_color_name,
     hero_bg_gradient_tag |-> theme.hero_bg_gradient_tag,
     hero_text_color |-> theme.hero_text_color,
     hero_bg_sampled_from |-> theme.sampled_element,
     hero_media_type |-> mediaType,
     hero_images |-> images,
     hero_image_count |-> Len(images),
     metrics_visible |-> metricsVisible(allHeroText),
     is_copy_only |-> /\ ~Falsy(resolvedHeadline)
                      /\ Len(resolvedHeadline) >= 3
                      /\ ctas = <<>>
                      /\ mediaType = Null,
     interactive_debug |-> demo.debug,
     list_items_raw |-> listItemsRaw(items, features)]

contentTop(d, el) == IF el = 0 THEN 0 ELSE d.nodes[el].top - 20
hasPromoLanguage(allHeroText, head, sub) ==
    promoRegex(allHeroText) \/ promoRegex(Join(<<head, sub>>))
hasTransactionalCta(ctas) ==
    \E k \in 1..Len(ctas) : transactionalCtaRegex(ctas[k])
totalBulletCount(d, hb, features) ==
    Len(features) + virtualBulletCount(d, hb, Len(features))

WithMedia(d, hb, sel, cs, sub, stack, ctas, allHeroText, items, features, dashboardKeywords) ==
    FingerprintFields(d, hb, sel, cs, sub, stack, ctas, allHeroText,
        DemoSignals(d, allHeroText, items),
        IF Falsy(sel.headline) THEN sel.largestText ELSE sel.headline,
        hasPromoLanguage(allHeroText, sel.headline, sub),
        hasTransactionalCta(ctas),
        totalBulletCount(d, hb, features),
        dashboardKeywords,
        heroMediaType(d, hb, dashboardKeywords),
        darkThemeResult(d, sel.headlineEl),
        features, items, heroImages(d, hb))

WithLists(d, hb, sel, cs, sub, stack, ctas, allHeroText, items) ==
    WithMedia(d, hb, sel, cs, sub, stack, ctas, allHeroText, items,
              featureListItems(items, contentTop(d, sel.headlineEl)),
              hasDashboardKeywords(sel.headline, sub))

\* The object literal of lines 1662-1741.  sel is the outcome of the headline
\* selection, cs the ranked heroCtaCandidates, sub the subheadline and stack
\* detectedStack.
Fingerprint(d, hb, sel, cs, sub, stack) ==
    WithLists(d, hb, sel, cs, sub, stack, Texts(cs),
              heroText(d, hb, sel.headlineEl), listItems(d, hb))

\* ------------------------------------------------------------- documents
EmptyDoc(vh) ==
    [vh |-> vh, vw |-> 1440, title |-> <<>>, markers |-> {},
     ownText |-> <<>>, rootCls |-> {}, bodyBg |-> Transparent, nodes |-> <<>>]

Page(nodes) == [EmptyDoc(800) EXCEPT !.nodes = nodes]

\* top and height of a section: above the screen, short at the top, ending
\* between the viewport and the cap, crossing the cap, starting at the cap
SectionGeometries ==
    {<<-200, 100>>, <<0, 100>>, <<700, 150>>, <<700, 400>>, <<920, 100>>}

\* bodies of n plain sections
SectionDocs(n) ==
    {Page([k \in 1..n |-> El("SECTION", 0, g[k][1], g[k][2], 0, 1440)]) :
       g \in [1..n -> SectionGeometries]}

BoundaryDocs == UNION {SectionDocs(n) : n \in 0..MaxSections}

\* one wrapper under the body with up to two children
WrapperHeights == {1000, 3000}
ChildGeometries == {<<0, 300>>, <<2000, 1000>>}
WrapperDocs ==
    {Page(<<El("DIV", 0, 0, h, 0, 1440)>>
          \o [k \in 1..n |-> El("DIV", 1, g[k][1], g[k][2], 0, 1440)]) :
       h \in WrapperHeights, n \in 0..2, g \in [1..2 -> ChildGeometries]}

Tagline == <<"ship", "code", "faster,", "together">>

\* a logo-like h1 and a larger text block below it, in four placements
Acme(parent, top) ==
    [El("H1", parent, top, 30, 20, 100) EXCEPT !.text = <<"acme">>, !.fontSize = 20]
Block(parent, size) ==
    [El("P", parent, 200, 60, 20, 800) EXCEPT !.text = Tagline, !.fontSize = size]
Placements == {"div-siblings", "section-siblings", "body-siblings",
               "separate-sections"}
LogoNodes(placement, top, size) ==
    CASE placement = "div-siblings" ->
           <<El("DIV", 0, 0, 600, 0, 1440), Acme(1, top), Block(1, size)>>
      [] placement = "section-siblings" ->
           <<El("SECTION", 0, 0, 600, 0, 1440), Acme(1, top), Block(1, size)>>
      [] placement = "body-siblings" ->
           <<Acme(0, top), Block(0, size)>>
      [] placement = "separate-sections" ->
           <<El("SECTION", 0, 0, 150, 0, 1440), Acme(1, top),
             El("SECTION", 0, 150, 450, 0, 1440), Block(3, size)>>
LogoDocs ==
    {Page(LogoNodes(pl, top, size)) :
       pl \in Placements, top \in {20, 95}, size \in {24, 26, 32}}

\* a hero with a headline and three CTAs 0, 30 and 60px from the ideal line
Hero == El("SECTION", 0, 0, 800, 0, 1440)
Heading(top, color) ==
    [El("H1", 1, top, 60, 100, 800) EXCEPT
        !.text = Tagline, !.fontSize = 48, !.color = color]
CtaTexts == {<<"learn", "more">>, <<"start", "free">>, <<"book", "demo">>,
             <<"sign", "up", "with", "google">>, <<"log", "in">>}
Cta(tag, text, top, left) ==
    [El(tag, 1, top, 40, left, 120) EXCEPT !.text = text, !.attrs = {"href"}]
CtaDocs ==
    {Page(<<Hero, Heading(150, Rgb(0, 0, 0)),
            Cta("A", t1, 230, lefts[1]),
            Cta(second, t2, 260, lefts[2]),
            Cta("A", t3, 290, lefts[3])>>) :
       t1 \in CtaTexts, t2 \in CtaTexts \ {<<"log", "in">>},
       t3 \in {<<"learn", "more">>, <<"start", "free">>},
       second \in {"A", "BUTTON"},
       lefts \in {<<120, 300, 480>>, <<480, 300, 120>>}}

\* pages of an empty body: markers of the head, title, text and class of the
\* root elements
StackMarkers == {"nextjs", "gatsby", "remix", "react", "nuxt", "vitepress",
                 "vue", "framer", "framer-motion"}
StackDocs == {[EmptyDoc(800) EXCEPT !.markers = m] : m \in SUBSET StackMarkers}
\* a text of n words
Words(n) == [k \in 1..n |-> "lorem"]
\* a hero with a heading of 1 to 31 words, and below it a paragraph of 10 to
\* 31 words in a smaller or larger font, with or without 25 more words in a
\* span that is not displayed
LongParagraphs ==
    {Words(10), Words(9) \o <<"done.">>, Words(29), Words(30), Words(31)}
LongNodes(tag, n, size, text) ==
    <<Hero,
      [El(tag, 1, 150, 60, 100, 800) EXCEPT !.text = Words(n), !.fontSize = 40],
      [El("P", 1, 300, 100, 100, 800) EXCEPT !.text = text, !.fontSize = size]>>
HiddenSpan ==
    [El("SPAN", 3, 300, 0, 100, 0) EXCEPT !.text = Words(25), !.display = "none"]
LongDocs ==
    {Page(LongNodes(tag, n, size, text) \o extra) :
       tag \in {"H1", "H2"}, n \in {1, 3, 30, 31}, size \in {20, 44, 48},
       text \in LongParagraphs, extra \in {<<>>, <<HiddenSpan>>}}

\* pages with one marker of each part of the catalog: a framework, a CSS
\* library, a host and an animation library
CatalogMarkers == {"webflow", "tailwind", "vercel", "gsap"}
CatalogDocs == {[EmptyDoc(800) EXCEPT !.markers = m \cup {"react"}] :
                  m \in SUBSET CatalogMarkers}
EmptyDocs ==
    {[EmptyDoc(vh) EXCEPT !.markers = m, !.title = t, !.ownText = o, !.rootCls = c] :
       vh \in {600, 800}, m \in {{}, {"gsap"}},
       t \in {<<>>, <<"page", "not", "found">>},
       o \in {<<>>, <<"access", "denied">>}, c \in {{}, {"demo"}}}

\* a hero section painted with a background under a headline
White == Rgb(255, 255, 255)
Navy == Rgb(10, 10, 20)
Paints ==
    {[bg |-> c, bgImage |-> "none", stops |-> <<>>] :
        c \in {Navy, White, Rgb(51, 51, 51), Rgb(3, 58, 123), Transparent,
               [r |-> 0, g |-> 0, b |-> 0, a |-> 50]}}
    \cup {[bg |-> Transparent, bgImage |-> "url", stops |-> <<>>],
          [bg |-> Transparent, bgImage |-> "gradient", stops |-> <<Navy, White>>],
          [bg |-> Transparent, bgImage |-> "gradient",
           stops |-> <<[Navy EXCEPT !.a = 0], White>>],
          [bg |-> Transparent, bgImage |-> "gradient",
           stops |-> <<[White EXCEPT !.a = 0], Navy>>]}
ThemeDocs ==
    {[Page(<<[Hero EXCEPT !.bg = p.bg, !.bgImage = p.bgImage, !.stops = p.stops,
                          !.cls = {"hero"}, !.firstClass = "hero"],
             Heading(top, color)>>) EXCEPT !.bodyBg = body] :
       p \in Paints, body \in {Transparent, Navy}, top \in {200, 790},
       color \in {White, Navy, Rgb(30, 234, 66)}}

\* eleven transparent wrappers between a dark body and the headline
DeepDoc ==
    [Page([k \in 1..11 |-> El("DIV", k - 1, 0, 800, 0, 1440)]
          \o <<[Heading(200, White) EXCEPT !.parent = 11]>>)
       EXCEPT !.bodyBg = Navy]

\* a hero with three cards, each an image and a price
CardMarks ==
    {[cls |-> {"product-card"}, attrs |-> {}],
     [cls |-> {"tile"}, attrs |-> {}],
     [cls |-> {}, attrs |-> {"data-product"}]}
CardNodes(parent, first, k, mark, note) ==
    <<[El("DIV", parent, 300, 300, 100 + 300 * k, 250) EXCEPT
          !.cls = mark.cls, !.attrs = mark.attrs],
      [El("IMG", first, 300, 150, 100 + 300 * k, 250) EXCEPT !.src = "shoe"],
      [El("SPAN", first, 460, 20, 100 + 300 * k, 250) EXCEPT !.text = note]>>
CommerceDocs ==
    {Page(<<Hero>> \o wrap
          \o CardNodes(Len(wrap) + 1, Len(wrap) + 2, 0, mark, note)
          \o CardNodes(Len(wrap) + 1, Len(wrap) + 5, 1, mark, note)
          \o CardNodes(Len(wrap) + 1, Len(wrap) + 8, 2, mark, note)) :
       mark \in CardMarks,
       note \in {<<"$49">>, <<"longdescription", "$49">>},
       wrap \in {<<>>,
                 <<[El("DIV", 1, 280, 340, 80, 900) EXCEPT !.cls = {"products"}]>>,
                 <<[El("DIV", 1, 280, 340, 80, 900) EXCEPT !.cls = {"row"}]>>}}

\* heroes of a voice product: a headline with or without voice vocabulary, a
\* list of four short labels with icons, and any of a text box, a play
\* control, three options of a listbox, an animation library and two CTAs
VoiceLine == <<"clone", "any", "voice">>
IconRow(list, k) ==
    <<[El("LI", list, 300 + 30 * k, 24, 100, 300) EXCEPT !.text = <<"aria">>],
      El("I", list + 2 * k + 1, 300 + 30 * k, 16, 100, 16)>>
IconList(list) ==
    <<El("UL", 1, 300, 120, 100, 300)>>
    \o IconRow(list, 0) \o IconRow(list, 1) \o IconRow(list, 2)
    \o IconRow(list, 3)
TextBox == El("TEXTAREA", 1, 450, 80, 100, 400)
PlayControl ==
    [El("DIV", 1, 450, 40, 600, 40) EXCEPT !.cls = {"play"}, !.attrs = {"tabindex"}]
ListboxOption(k) ==
    [El("DIV", 1, 550, 30, 100 + 100 * k, 80) EXCEPT !.attrs = {"role=option"}]
TwoCtas ==
    <<Cta("A", <<"start", "free">>, 600, 100),
      Cta("A", <<"learn", "more">>, 600, 300)>>
DemoDocs ==
    {[Page(<<Hero, [Heading(150, Rgb(0, 0, 0)) EXCEPT !.text = line]>>
           \o list \o box \o play \o options \o ctas)
         EXCEPT !.markers = m] :
       line \in {Tagline, VoiceLine},
       list \in {<<>>, IconList(3)},
       box \in {<<>>, <<TextBox>>},
       play \in {<<>>, <<PlayControl>>},
       options \in {<<>>, <<ListboxOption(0), ListboxOption(1), ListboxOption(2)>>},
       ctas \in {<<>>, TwoCtas},
       m \in {{}, {"gsap"}}}

\* a navigation bar of 3 or 100 words above a hero whose headline is a
\* tagline or an error message, under an empty or a not-found title
ErrorLines ==
    {Tagline, <<"access", "denied">>, <<"404">>, <<"503">>,
     <<"something", "went", "wrong">>, <<"404", "captcha">>}
ErrorDocs ==
    {[Page(<<[El("NAV", 0, 0, 80, 0, 1440) EXCEPT !.text = Words(n)],
             El("SECTION", 0, 80, 720, 0, 1440),
             [Heading(200, Rgb(0, 0, 0)) EXCEPT !.parent = 2, !.text = line]>>)
         EXCEPT !.title = t] :
       n \in {3, 100}, line \in ErrorLines,
       t \in {<<>>, <<"page", "not", "found">>}}

Docs ==
    BoundaryDocs \cup WrapperDocs \cup LogoDocs \cup CtaDocs \cup StackDocs
    \cup EmptyDocs \cup ThemeDocs \cup {DeepDoc} \cup CommerceDocs
    \cup CatalogDocs \cup LongDocs \cup DemoDocs \cup ErrorDocs

\* the geometry of the body's children
TopGeometry(d) ==
    LET top == Children(d, 0)
    IN [k \in 1..Len(top) |-> <<d.nodes[top[k]].top, d.nodes[top[k]].height>>]

\* What a page can turn into between two calls: another text on one CTA,
\* other content below a wrapper, another text, class and paint on a section.
Mutations(d) ==
    IF d \in CtaDocs
    THEN {[d EXCEPT !.nodes[i].text = t] :
             i \in {k \in 1..Len(d.nodes) : CtaElement(d.nodes[k])},
             t \in CtaTexts \ {<<"log", "in">>}} \ {d}
    ELSE IF d \in WrapperDocs
    THEN {e \in WrapperDocs : TopGeometry(e) = TopGeometry(d)} \ {d}
    ELSE IF d \in BoundaryDocs /\ d.nodes # <<>>
    THEN {[d EXCEPT !.nodes[1].text = <<"pricing", "blog", "docs">>,
                    !.nodes[1].cls = {"nav"},
                    !.nodes[1].attrs = {"role=navigation"},
                    !.nodes[1].visibility = "hidden",
                    !.nodes[1].bg = Navy]}
    ELSE {}

\* ------------------------------------------------------------ auth client
\* src/lib/auth.js and authFetch of src/lib/api.js.  A token is a number, 0
\* for a missing one; expires_at is in seconds, 0 for none.  Each await is
\* the end of a step.
NoSession == [access_token |-> 0, refresh_token |-> 0, expires_at |-> 0]
RefreshMargin == 60000
TokenCap == 1 + 2 * Callers

\* the sessions the storage holds at the start: none, or the first token
\* with or without a refresh token, without expiry or expiring in 30, 60 or
\* 120 seconds
StoredSessions ==
    {NoSession}
    \cup {[access_token |-> 1, refresh_token |-> r, expires_at |-> e] :
             r \in {0, 1}, e \in {0, 30, 60, 120}}

IdleProc ==
    [op |-> "none", pc |-> "idle", ret |-> "none", session |-> NoSession,
     token |-> 0, status |-> 0, data |-> NoSession, requests |-> 0,
     refreshes |-> 0, result |-> NoSession, error |-> "",
     seen |-> NoSession, at |-> 0, read |-> 0]
AuthIdle ==
    /\ storage = NoSession
    /\ server = [accepts |-> 0, exp |-> [t \in 1..TokenCap |-> 0], issued |-> 0]
    /\ now = 0
    /\ proc = [c \in 1..Callers |-> IdleProc]

\* a session is refreshed only once it has expired
ExpiredOnly(session, t) ==
    /\ session.expires_at # 0
    /\ t > session.expires_at * 1000

\* now > expiresMs - 60000, with expiresMs = expiresAt * 1000
AboutToExpire(session, t) ==
    /\ session.expires_at # 0
    /\ t > session.expires_at * 1000 - RefreshMargin

\* the API accepts an access token it issued until its expiry
ValidAccess(t) ==
    /\ t \in 1..TokenCap
    /\ server.exp[t] # 0
    /\ now < server.exp[t] * 1000

\* getCurrentSession returns v to its caller: the call ends, or authFetch
\* goes on with the access token (lines 104-105 of api.js)
ReturnSession(p, v) ==
    IF p.op = "getCurrentSession"
    THEN [p EXCEPT !.pc = "done", !.result = v]
    ELSE IF v.access_token = 0
    THEN [p EXCEPT !.pc = "done", !.error = "Not authenticated"]
    ELSE [p EXCEPT !.pc = "request1", !.token = v.access_token]

\* authFetch sends its second request whatever the refresh returned
ReturnRefreshedRetry(p, v) ==
    IF p.ret = "getCurrentSession" THEN ReturnSession(p, v)
    ELSE [p EXCEPT !.pc = "request2",
                   !.token = IF v.access_token # 0 THEN v.access_token ELSE @]

\* refreshSession returns v: to getCurrentSession (line 126) or to authFetch
\* (lines 109-117 of api.js)
ReturnRefreshed(p, v) ==
    IF p.ret = "getCurrentSession" THEN ReturnSession(p, v)
    ELSE IF v.access_token # 0
    THEN [p EXCEPT !.pc = "request2", !.token = v.access_token]
    ELSE [p EXCEPT !.pc = "signOut"]


\* a caller calls getCurrentSession() or authFetch()
Call(c, op) ==
    /\ proc[c].pc = "idle"
    /\ proc' = [proc EXCEPT
                   ![c] = [IdleProc EXCEPT !.op = op, !.pc = "getSession"]]
    /\ UNCHANGED <<storage, server, now, heroVars, captureVars>>

\* getCurrentSession, lines 113-131: the session is read and its expiry
\* compared with Date.now()
GetCurrentSession(c) ==
    /\ proc[c].pc = "getSession"
    /\ proc' = [proc EXCEPT ![c] =
          IF storage = NoSession
          THEN ReturnSession([@ EXCEPT !.seen = storage, !.at = now], NoSession)
          ELSE IF AboutToExpire(storage, now)
          THEN [@ EXCEPT !.seen = storage, !.at = now, !.session = storage,
                         !.pc = "refresh", !.ret = "getCurrentSession"]
          ELSE ReturnSession([@ EXCEPT !.seen = storage, !.at = now,
                                       !.session = storage], storage)]
    /\ UNCHANGED <<storage, server, now, heroVars, captureVars>>

\* refreshSession, lines 81-85: the session is read for its refresh token
RefreshRead(c) ==
    /\ proc[c].pc = "refresh"
    /\ proc' = [proc EXCEPT ![c] =
          [@ EXCEPT !.refreshes = @ + 1,
                    !.read = storage.refresh_token,
                    !.pc = IF storage.refresh_token = 0 THEN "clearSession"
                           ELSE "post"]]
    /\ UNCHANGED <<storage, server, now, heroVars, captureVars>>

\* POST /auth/refresh (lines 87-91): the API accepts the refresh token it
\* issued last, once, and answers with a new pair of tokens
RefreshPost(c) ==
    /\ proc[c].pc = "post"
    /\ IF proc[c].read = server.accepts /\ server.issued < TokenCap
       THEN /\ server' =
                 [accepts |-> server.issued + 1,
                  exp |-> [server.exp EXCEPT ![server.issued + 1] =
                             (now + LifetimeTicks * RefreshMargin) \div 1000],
                  issued |-> server.issued + 1]
            /\ proc' = [proc EXCEPT ![c] =
                  [@ EXCEPT !.pc = "setSession",
                            !.data = [access_token |-> server.issued + 1,
                                      refresh_token |-> server.issued + 1,
                                      expires_at |->
                                          (now + LifetimeTicks * RefreshMargin)
                                             \div 1000]]]
       ELSE /\ proc' = [proc EXCEPT ![c] = [@ EXCEPT !.pc = "clearSession"]]
            /\ UNCHANGED server
    /\ UNCHANGED <<storage, now, heroVars, captureVars>>

\* lines 98-107: the new session is stored and returned
RefreshStore(c) ==
    /\ proc[c].pc = "setSession"
    /\ storage' = proc[c].data
    /\ proc' = [proc EXCEPT ![c] = ReturnRefreshed(@, @.data)]
    /\ UNCHANGED <<server, now, heroVars, captureVars>>

\* lines 83-84 and 93-95: clearSession(), and null is returned
RefreshClear(c) ==
    /\ proc[c].pc = "clearSession"
    /\ storage' = NoSession
    /\ proc' = [proc EXCEPT ![c] = ReturnRefreshed(@, NoSession)]
    /\ UNCHANGED <<server, now, heroVars, captureVars>>

\* makeRequest (api.js lines 89-97, 107, 112): the API answers 401 to a token
\* it does not accept, else 200 or an error of its own
Request(c) ==
    /\ proc[c].pc \in {"request1", "request2"}
    /\ \E status \in IF ValidAccess(proc[c].token) THEN {200, 500} ELSE {401} :
          proc' = [proc EXCEPT ![c] =
             IF status # 401
             THEN [@ EXCEPT !.requests = @ + 1, !.status = status,
                            !.pc = "done",
                            !.error = IF status = 200 THEN ""
                                      ELSE "Request failed"]
             ELSE IF @.pc = "request1"
             THEN [@ EXCEPT !.requests = @ + 1, !.status = status,
                            !.pc = "refresh", !.ret = "authFetch"]
             ELSE [@ EXCEPT !.requests = @ + 1, !.status = status,
                            !.pc = "signOut"]]
    /\ UNCHANGED <<storage, server, now, heroVars, captureVars>>

\* api.js lines 114-117: signOut(), and "Session expired" is thrown
SignOut(c) ==
    /\ proc[c].pc = "signOut"
    /\ storage' = NoSession
    /\ proc' = [proc EXCEPT ![c] =
          [@ EXCEPT !.pc = "done", !.error = "Session expired"]]
    /\ UNCHANGED <<server, now, heroVars, captureVars>>

\* a minute passes
Tick ==
    /\ now < MaxTicks * RefreshMargin
    /\ now' = now + RefreshMargin
    /\ UNCHANGED <<storage, server, proc, heroVars, captureVars>>

\* ------------------------------------------ floating icon and side panel
\* Each tab shows a site of its own; the url of a tab is the path on that
\* site, so that a URL is a tab and a path.
Urls == {"/", "/blog"}

\* isHeroPageUrl (floating-icon.js lines 13-50, service-worker.js 1408-1438):
\* the root path is a hero page, an article is not
isHeroPageUrl(url) == url = "/"

NoTab == [id |-> 0, url |-> ""]
SignedIn == [access_token |-> 1, refresh_token |-> 1, expires_at |-> 0]

\* floating-icon.js line 219: setFabState(heroDetected ? "ready" : "disabled")
InitialFabState(url) == IF isHeroPageUrl(url) THEN "ready" ELSE "disabled"

\* a page as it is loaded: the floating icon injected, no content script
LoadedTab(url) ==
    [url |-> url, fab |-> InitialFabState(url), timers |-> <<>>, listeners |-> 0]

IdleCapture ==
    [pc |-> "idle", tab |-> 0, ok |-> FALSE, fp |-> NoTab, runs |-> 0,
     responses |-> 0, submitted |-> NoTab, sent |-> "none", to |-> 0]

InitialState ==
    [screen |-> "loading", user |-> FALSE, activeTab |-> NoTab,
     pollTimer |-> FALSE, polls |-> 0]

CaptureIdle ==
    /\ tabs = [t \in 1..Tabs |-> LoadedTab("/")]
    /\ active = 1
    /\ panel = InitialState
    /\ msgs = {}
    /\ cap = [k \in 1..MaxCaptures |-> IdleCapture]
    /\ events = 0

Msg(type, tab, url) == [type |-> type, tab |-> tab, url |-> url]

\* loadActiveTab (lines 1373-1389): GET_ACTIVE_TAB is answered with the
\* active tab of the window (lines 38-43)
LoadActiveTab(a, ts) == {Msg("ACTIVE_TAB", a, ts[a].url)}

\* refreshActiveTab (lines 1455-1462)
RefreshActiveTab(screen, a, ts) ==
    IF screen \in {"capture", "error"} THEN LoadActiveTab(a, ts) ELSE {}

\* notifyFloatingIcon (lines 1367-1371)
NotifyFloatingIcon(type, activeTab) ==
    IF activeTab.id # 0 THEN {Msg(type, activeTab.id, "")} ELSE {}

\* chrome.storage.onChanged (auth.js lines 160-166): the callback of
\* onSessionChange is called when the stored value has changed
SessionChanged(old, new) ==
    IF old = new THEN {}
    ELSE {Msg(IF new = NoSession THEN "SESSION_NULL" ELSE "SESSION", 0, "")}

\* the runs of handleCapture that are over or not begun
FreeCaptures == {k \in 1..MaxCaptures : cap[k].pc \in {"idle", "done"}}
FreeCapture == CHOOSE k \in FreeCaptures : \A j \in FreeCaptures : k <= j

idleVars == <<heroVars, server, now, proc>>

\* one more of the user's actions: a click, a navigation, a change of tab
UserEvent ==
    /\ events < MaxEvents
    /\ events' = events + 1

\* floating-icon.js lines 223-243: a click on the icon in state "ready"
\* (in "disabled" or "capturing" it does nothing, in "done" it only opens the
\* side panel)
Click(t) ==
    /\ tabs[t].fab = "ready"
    /\ tabs' = [tabs EXCEPT ![t].fab = "capturing"]
    /\ msgs' = msgs \cup {Msg("FAB_CAPTURE", t, tabs[t].url)}
    /\ UserEvent
    /\ UNCHANGED <<active, panel, cap, storage, idleVars>>

\* handleFabCapture (service-worker.js lines 58-79): the side panel opens
\* and START_CAPTURE is sent, or it does not and the tab gets CAPTURE_ERROR
handleFabCapture(m) ==
    /\ m \in msgs
    /\ m.type = "FAB_CAPTURE"
    /\ \E opened \in BOOLEAN :
          msgs' = (msgs \ {m}) \cup
                    {IF opened THEN Msg("START_CAPTURE", m.tab, m.url)
                     ELSE Msg("CAPTURE_ERROR", m.tab, "")}
    /\ UNCHANGED <<tabs, active, panel, cap, storage, events, idleVars>>

\* handleCapture up to its first await (lines 943-955): run k begins and
\* INJECT_AND_EXTRACT is sent for state.activeTab.id
BeginCapture(p, k) ==
    /\ panel' = [p EXCEPT !.screen = "capturing"]
    /\ cap' = [cap EXCEPT ![k] = [IdleCapture EXCEPT !.pc = "extract",
                                                     !.tab = p.activeTab.id]]

\* the listener of START_CAPTURE (lines 1444-1451)
START_CAPTURE(m) ==
    /\ m \in msgs
    /\ m.type = "START_CAPTURE"
    /\ msgs' = msgs \ {m}
    /\ IF panel.screen = "capture"
       THEN /\ FreeCaptures # {}
            /\ BeginCapture([panel EXCEPT !.activeTab = [id |-> m.tab, url |-> m.url]],
                            FreeCapture)
       ELSE /\ panel' = [panel EXCEPT !.activeTab = [id |-> m.tab, url |-> m.url]]
            /\ UNCHANGED cap
    /\ UNCHANGED <<tabs, active, storage, events, idleVars>>

\* the capture button of the side panel (lines 528-533)
CaptureButton ==
    /\ panel.screen \in {"capture", "error"}
    /\ panel.activeTab # NoTab
    /\ FreeCaptures # {}
    /\ BeginCapture(panel, FreeCapture)
    /\ UserEvent
    /\ UNCHANGED <<tabs, active, msgs, storage, idleVars>>

\* handleInjectAndExtract (lines 83-110) and the listeners of
\* EXTRACT_FINGERPRINT (content-script.js lines 1744-1755): the content
\* script is injected once more, which adds a listener to those the page has;
\* each listener runs extractFingerprint and calls sendResponse, and the
\* first response is the one the request gets
Injected(listeners) ==
    IF listeners < MaxListeners THEN listeners + 1 ELSE MaxListeners

handleInjectAndExtract(k) ==
    /\ cap[k].pc = "extract"
    /\ tabs' = [tabs EXCEPT ![cap[k].tab].listeners = Injected(@)]
    /\ \E thrown \in BOOLEAN :
          cap' = [cap EXCEPT ![k] =
                    [@ EXCEPT !.pc = "extracted",
                              !.ok = ~thrown,
                              !.fp = [id |-> cap[k].tab,
                                      url |-> tabs[cap[k].tab].url],
                              !.runs = Injected(tabs[cap[k].tab].listeners),
                              !.responses = 1]]
    /\ UNCHANGED <<active, panel, msgs, storage, events, idleVars>>

\* the catch of handleCapture (lines 977-982)
Caught(k) ==
    /\ panel' = [panel EXCEPT !.screen = "error"]
    /\ cap' = [cap EXCEPT ![k] = [@ EXCEPT !.pc = "done",
                                           !.sent = "CAPTURE_ERROR",
                                           !.to = panel.activeTab.id]]

\* handleCapture after the extraction (lines 957-967): a failed extraction
\* throws, state.activeTab.url throws when state.activeTab is null, authFetch
\* throws without an access token; else the fingerprint is submitted with
\* state.activeTab.url
captureHero(k) ==
    /\ cap[k].pc = "extracted"
    /\ IF ~cap[k].ok \/ panel.activeTab = NoTab \/ storage = NoSession
       THEN /\ Caught(k)
            /\ msgs' = msgs \cup NotifyFloatingIcon("CAPTURE_ERROR", panel.activeTab)
       ELSE /\ cap' = [cap EXCEPT ![k] = [@ EXCEPT !.pc = "submitted",
                                                   !.submitted = panel.activeTab]]
            /\ UNCHANGED <<panel, msgs>>
    /\ UNCHANGED <<tabs, active, storage, events, idleVars>>

\* the backend answers (lines 967-982): the result is shown and the icon is
\* told CAPTURE_DONE, or the request fails, or the session has expired and
\* authFetch has signed out, and the icon is told CAPTURE_ERROR
Answered(k) ==
    /\ cap[k].pc = "submitted"
    /\ \E status \in {200, 500, 401} :
          IF status = 200
          THEN /\ panel' = [panel EXCEPT !.screen = "breakdown"]
               /\ cap' = [cap EXCEPT ![k] = [@ EXCEPT !.pc = "done",
                                                      !.sent = "CAPTURE_DONE",
                                                      !.to = panel.activeTab.id]]
               /\ msgs' = msgs \cup NotifyFloatingIcon("CAPTURE_DONE", panel.activeTab)
                               \cup LoadActiveTab(active, tabs)
               /\ UNCHANGED storage
          ELSE /\ Caught(k)
               /\ storage' = IF status = 401 THEN NoSession ELSE storage
               /\ msgs' = msgs \cup NotifyFloatingIcon("CAPTURE_ERROR", panel.activeTab)
                               \cup SessionChanged(storage, storage')
    /\ UNCHANGED <<tabs, active, events, idleVars>>

\* the answer to GET_ACTIVE_TAB (lines 1375-1387)
loadActiveTab(m) ==
    /\ m \in msgs
    /\ m.type = "ACTIVE_TAB"
    /\ msgs' = msgs \ {m}
    /\ panel' = [panel EXCEPT !.activeTab = [id |-> m.tab, url |-> m.url]]
    /\ UNCHANGED <<tabs, active, cap, storage, events, idleVars>>

\* floating-icon.js lines 257-264: CAPTURE_DONE shows "done" and starts a
\* timer of 10 seconds. A pending timer is TRUE when it was started by the
\* CAPTURE_DONE that entered the present "done", FALSE when by an earlier one.
CAPTURE_DONE(m) ==
    /\ m \in msgs
    /\ m.type = "CAPTURE_DONE"
    /\ Len(tabs[m.tab].timers) < MaxTimers
    /\ msgs' = msgs \ {m}
    /\ tabs' = [tabs EXCEPT ![m.tab] =
          [@ EXCEPT !.fab = "done",
                    !.timers = Append([i \in 1..Len(@) |-> FALSE], TRUE)]]
    /\ UNCHANGED <<active, panel, cap, storage, events, idleVars>>

\* floating-icon.js lines 265-267
CAPTURE_ERROR(m) ==
    /\ m \in msgs
    /\ m.type = "CAPTURE_ERROR"
    /\ msgs' = msgs \ {m}
    /\ tabs' = [tabs EXCEPT ![m.tab].fab = "ready"]
    /\ UNCHANGED <<active, panel, cap, storage, events, idleVars>>

\* floating-icon.js lines 261-263: the oldest pending timer fires
TimerFires(t) ==
    /\ tabs[t].timers # <<>>
    /\ tabs' = [tabs EXCEPT ![t] =
          [@ EXCEPT !.timers = Tail(@),
                    !.fab = IF @ = "done" THEN "ready" ELSE @]]
    /\ UNCHANGED <<active, panel, msgs, cap, storage, events, idleVars>>

\* the user switches to tab t (service-worker.js lines 1464-1466)
onActivated(t) ==
    /\ active # t
    /\ active' = t
    /\ msgs' = msgs \cup RefreshActiveTab(panel.screen, t, tabs)
    /\ UserEvent
    /\ UNCHANGED <<tabs, panel, cap, storage, idleVars>>

\* tab t moves to another URL: inside a single-page application, where the
\* MutationObserver of the icon sets its state again (floating-icon.js lines
\* 272-279), or by loading a page, where the scripts of the page start anew;
\* then chrome.tabs.onUpdated (service-worker.js lines 1468-1472)
onUpdated(t, url, spa) ==
    /\ tabs[t].url # url
    /\ tabs' = [tabs EXCEPT ![t] =
          IF spa THEN [@ EXCEPT !.url = url, !.fab = InitialFabState(url)]
          ELSE LoadedTab(url)]
    /\ msgs' = msgs \cup
          IF panel.activeTab.id = t
          THEN RefreshActiveTab(panel.screen, active, tabs') ELSE {}
    /\ UserEvent
    /\ UNCHANGED <<active, panel, cap, storage, idleVars>>

\* init (lines 1505-1518)
init ==
    /\ panel.screen = "loading"
    /\ IF storage # NoSession
       THEN /\ panel' = [panel EXCEPT !.user = TRUE, !.screen = "capture"]
            /\ msgs' = msgs \cup LoadActiveTab(active, tabs)
       ELSE /\ panel' = [panel EXCEPT !.screen = "auth"]
            /\ UNCHANGED msgs
    /\ UNCHANGED <<tabs, active, cap, storage, events, idleVars>>

\* handleSendMagicLink and startPolling (lines 880-915)
startPolling ==
    /\ panel.screen = "auth"
    /\ panel' = [panel EXCEPT !.screen = "auth-waiting", !.pollTimer = TRUE]
    /\ UserEvent
    /\ UNCHANGED <<tabs, active, msgs, cap, storage, idleVars>>

\* "Use a different email" (lines 428-436)
DifferentEmail ==
    /\ panel.screen = "auth-waiting"
    /\ panel' = [panel EXCEPT !.screen = "auth", !.pollTimer = FALSE]
    /\ UserEvent
    /\ UNCHANGED <<tabs, active, msgs, cap, storage, idleVars>>

\* the interval of startPolling fires (lines 898-900): checkAuthStatus is sent
Poll ==
    /\ panel.pollTimer
    /\ panel.polls < MaxPolls
    /\ panel' = [panel EXCEPT !.polls = @ + 1]
    /\ UNCHANGED <<tabs, active, msgs, cap, storage, events, idleVars>>

\* checkAuthStatus answers (auth.js lines 54-75, service-worker.js lines
\* 901-913): when verified the session is stored and the capture screen shown
checkAuthStatus(verified) ==
    /\ panel.polls > 0
    /\ IF verified
       THEN /\ UserEvent
            /\ storage' = SignedIn
            /\ panel' = [panel EXCEPT !.polls = @ - 1, !.pollTimer = FALSE,
                                      !.user = TRUE, !.screen = "capture"]
            /\ msgs' = msgs \cup SessionChanged(storage, SignedIn)
                            \cup LoadActiveTab(active, tabs)
       ELSE /\ panel' = [panel EXCEPT !.polls = @ - 1]
            /\ UNCHANGED <<storage, msgs, events>>
    /\ UNCHANGED <<tabs, active, cap, idleVars>>

\* the callback of onSessionChange (service-worker.js lines 1485-1501)
onSessionChange(m) ==
    /\ m \in msgs
    /\ m.type \in {"SESSION", "SESSION_NULL"}
    /\ IF m.type = "SESSION"
       THEN IF panel.screen \in {"auth", "auth-waiting", "loading"}
            THEN /\ panel' = [panel EXCEPT !.user = TRUE, !.pollTimer = FALSE,
                                           !.screen = "capture"]
                 /\ msgs' = (msgs \ {m}) \cup LoadActiveTab(active, tabs)
            ELSE /\ panel' = [panel EXCEPT !.user = TRUE]
                 /\ msgs' = msgs \ {m}
       ELSE /\ panel' = [panel EXCEPT !.user = FALSE, !.screen = "auth"]
            /\ msgs' = msgs \ {m}
    /\ UNCHANGED <<tabs, active, cap, storage, events, idleVars>>

\* handleSignOut (lines 924-941), from the top bar of the main view
handleSignOut ==
    /\ panel.screen \in {"capture", "capturing", "error"}
    /\ storage' = NoSession
    /\ panel' = [panel EXCEPT !.screen = "auth", !.user = FALSE,
                              !.activeTab = NoTab, !.pollTimer = FALSE]
    /\ msgs' = msgs \cup SessionChanged(storage, NoSession)
    /\ UserEvent
    /\ UNCHANGED <<tabs, active, cap, idleVars>>

\* handleRetry (lines 985-995)
handleRetry ==
    /\ panel.screen = "error"
    /\ panel' = [panel EXCEPT !.screen = "capture"]
    /\ msgs' = msgs \cup LoadActiveTab(active, tabs)
    /\ UserEvent
    /\ UNCHANGED <<tabs, active, cap, storage, idleVars>>

\* a card of the feed is opened (lines 605-615), and the back button of the
\* breakdown (lines 695-698)
OpenCard ==
    /\ panel.screen \in {"capture", "capturing", "error"}
    /\ panel' = [panel EXCEPT !.screen = "breakdown"]
    /\ UserEvent
    /\ UNCHANGED <<tabs, active, msgs, cap, storage, idleVars>>

Back ==
    /\ panel.screen = "breakdown"
    /\ panel' = [panel EXCEPT !.screen = "capture"]
    /\ UserEvent
    /\ UNCHANGED <<tabs, active, msgs, cap, storage, idleVars>>

\* ----------------------------------------------------------------- steps
NoHeadline == [headline |-> NullText, headlineEl |-> 0,
               largestText |-> NullText, h1 |-> 0]

Init ==
    /\ doc \in Docs
    /\ engine \in IF doc \in CtaDocs THEN 1..Engines ELSE {1}
    /\ host \in IF doc \in ThemeDocs \cup EmptyDocs THEN {"ok", "throws"}
                ELSE {"ok"}
    /\ pc = "idle"
    /\ calls = 0
    /\ callDoc = doc
    /\ prevCallDoc = doc
    /\ heroBottom = 0
    /\ prevHeroBottom = 0
    /\ headline = NoHeadline
    /\ heroCtaCandidates = <<>>
    /\ subheadline = NullText
    /\ detectedStack = <<>>
    /\ response = NoResponse
    /\ prevResponse = NoResponse
    /\ AuthIdle
    /\ CaptureIdle

\* the page changes while no extraction runs
PageMutation ==
    /\ pc = "idle"
    /\ calls = 1
    /\ doc = callDoc
    /\ doc' \in Mutations(doc)
    /\ UNCHANGED <<engine, host, pc, calls, callDoc, prevCallDoc, heroBottom,
                   prevHeroBottom, headline, heroCtaCandidates, subheadline,
                   detectedStack, response, prevResponse>>
    /\ UNCHANGED <<authVars, captureVars>>

\* chrome.runtime.onMessage: an EXTRACT_FINGERPRINT message arrives
OnExtractMessage ==
    /\ pc = "idle"
    /\ calls < MaxCalls
    /\ calls' = calls + 1
    /\ prevCallDoc' = callDoc
    /\ callDoc' = doc
    /\ prevResponse' = response
    /\ prevHeroBottom' = heroBottom
    /\ pc' = "boundary"
    /\ UNCHANGED <<doc, engine, host, heroBottom, headline, heroCtaCandidates,
                   subheadline, detectedStack, response>>
    /\ UNCHANGED <<authVars, captureVars>>

\* lines 27-60
HeroBoundary ==
    /\ pc = "boundary"
    /\ heroBottom' = ComputeHeroBottom(doc)
    /\ pc' = "headline"
    /\ UNCHANGED <<doc, engine, host, calls, callDoc, prevCallDoc, prevHeroBottom,
                   headline, heroCtaCandidates, subheadline, detectedStack,
                   response, prevResponse>>
    /\ UNCHANGED <<authVars, captureVars>>

\* lines 136-315
ChooseHeadline ==
    /\ pc = "headline"
    /\ headline' = SelectHeadline(doc, heroBottom)
    /\ pc' = "ctas"
    /\ UNCHANGED <<doc, engine, host, calls, callDoc, prevCallDoc, heroBottom,
                   prevHeroBottom, heroCtaCandidates, subheadline,
                   detectedStack, response, prevResponse>>
    /\ UNCHANGED <<authVars, captureVars>>

\* lines 337-428
RankCtas ==
    /\ pc = "ctas"
    /\ heroCtaCandidates' =
          SortedCtas(doc, headline.headlineEl,
                     HeroCtaInput(doc, heroBottom, headline.headlineEl), engine)
    /\ pc' = "subheadline"
    /\ UNCHANGED <<doc, engine, host, calls, callDoc, prevCallDoc, heroBottom,
                   prevHeroBottom, headline, subheadline, detectedStack,
                   response, prevResponse>>
    /\ UNCHANGED <<authVars, captureVars>>

\* lines 430-593
FindSubheadline ==
    /\ pc = "subheadline"
    /\ subheadline' = Subheadline(doc, heroBottom, Texts(heroCtaCandidates),
                                  headline.headlineEl, engine)
    /\ pc' = "stack"
    /\ UNCHANGED <<doc, engine, host, calls, callDoc, prevCallDoc, heroBottom,
                   prevHeroBottom, headline, heroCtaCandidates, detectedStack,
                   response, prevResponse>>
    /\ UNCHANGED <<authVars, captureVars>>

\* lines 671-862
DetectStack ==
    /\ pc = "stack"
    /\ detectedStack' = RunStackRules(doc, 1, InitialDetectedStack)
    /\ pc' = "return"
    /\ UNCHANGED <<doc, engine, host, calls, callDoc, prevCallDoc, heroBottom,
                   prevHeroBottom, headline, heroCtaCandidates, subheadline,
                   response, prevResponse>>
    /\ UNCHANGED <<authVars, captureVars>>

\* document.elementFromPoint is called (line 1588) and throws: nothing in
\* extractFingerprint catches it
SamplerThrows(h) == host = "throws" /\ h.headlineEl # 0

\* lines 864-1741 and the try/catch of the listener with its sendResponse;
\* the locals of the call end with it
SendResponse ==
    /\ pc = "return"
    /\ response' =
          IF SamplerThrows(headline)
          THEN [success |-> FALSE, error |-> "elementFromPoint"]
          ELSE [success |-> TRUE,
                fingerprint |-> Fingerprint(doc, heroBottom, headline,
                                            heroCtaCandidates, subheadline,
                                            detectedStack)]
    /\ headline' = NoHeadline
    /\ heroCtaCandidates' = <<>>
    /\ subheadline' = NullText
    /\ detectedStack' = <<>>
    /\ pc' = "idle"
    /\ UNCHANGED <<doc, engine, host, calls, callDoc, prevCallDoc, heroBottom,
                   prevHeroBottom, prevResponse>>
    /\ UNCHANGED <<authVars, captureVars>>

Next ==
    \/ PageMutation
    \/ OnExtractMessage
    \/ HeroBoundary
    \/ ChooseHeadline
    \/ RankCtas
    \/ FindSubheadline
    \/ DetectStack
    \/ SendResponse

Spec == Init /\ [][Next]_vars

\* no page is being read
HeroIdle ==
    /\ doc = EmptyDoc(800)
    /\ engine = 1
    /\ host = "ok"
    /\ pc = "idle"
    /\ calls = 0
    /\ callDoc = doc
    /\ prevCallDoc = doc
    /\ heroBottom = 0
    /\ prevHeroBottom = 0
    /\ headline = NoHeadline
    /\ heroCtaCandidates = <<>>
    /\ subheadline = NullText
    /\ detectedStack = <<>>
    /\ response = NoResponse
    /\ prevResponse = NoResponse

\* the auth client: the storage holds any of StoredSessions, and the API
\* accepts the stored refresh token or has revoked it
AuthInit ==
    /\ HeroIdle
    /\ storage \in StoredSessions
    /\ server \in
          {[accepts |-> r,
            exp |-> [t \in 1..TokenCap |->
                       IF t # storage.access_token THEN 0
                       ELSE IF storage.expires_at = 0 THEN 120
                       ELSE storage.expires_at],
            issued |-> storage.access_token] :
             r \in {0, storage.refresh_token}}
    /\ now = 0
    /\ proc = [c \in 1..Callers |-> IdleProc]
    /\ CaptureIdle

AuthNext ==
    \/ \E c \in 1..Callers : Call(c, "getCurrentSession")
    \/ \E c \in 1..Callers : Call(c, "authFetch")
    \/ \E c \in 1..Callers : GetCurrentSession(c)
    \/ \E c \in 1..Callers : RefreshRead(c)
    \/ \E c \in 1..Callers : RefreshPost(c)
    \/ \E c \in 1..Callers : RefreshStore(c)
    \/ \E c \in 1..Callers : RefreshClear(c)
    \/ \E c \in 1..Callers : Request(c)
    \/ \E c \in 1..Callers : SignOut(c)
    \/ Tick

SpecAuth == AuthInit /\ [][AuthNext]_vars

\* ---------------------------------------------------------------- claims
\* a call has ended and none is running
Ended == calls >= 1 /\ pc = "idle"
\* a call has returned and none is running, in a page whose host answers
\* every query
Returned == Ended /\ host = "ok"
\* two calls have returned
Twice == calls >= 2 /\ Returned

\* C1: two calls of extractFingerprint on the same document and viewport send
\* the same response, field by field and list by list in the same order;
\* nothing of the first call reaches the second.
Determinism ==
    (Twice /\ callDoc = prevCallDoc) => response = prevResponse

\* two calls on one page with three ranked CTAs under a build other than the
\* first, and two calls on one page with a detected stack
DeterminismWitness ==
    /\ Twice
    /\ callDoc = prevCallDoc
    /\ engine > 1
    /\ response.fingerprint.cta_count = 3
    /\ response.fingerprint.ctas[1] # response.fingerprint.ctas[3]

\* the sections on screen in front of the first one that starts at the cap
Considered(d, secs) ==
    {k \in 1..Len(secs) :
        /\ Bottom(d.nodes[secs[k]]) > 0
        /\ \A m \in 1..k :
              Bottom(d.nodes[secs[m]]) > 0 => 100 * d.nodes[secs[m]].top < 115 * d.vh}
\* the sections with top < 1.15 * viewportHeight and bottom > 0
Qualifying(d, secs) ==
    {k \in 1..Len(secs) :
        /\ Bottom(d.nodes[secs[k]]) > 0
        /\ 100 * d.nodes[secs[k]].top < 115 * d.vh}
\* the greatest bottom edge among the sections K, and floor when K is empty
MaxBottom(d, secs, K, floor) ==
    IF K = {} THEN floor
    ELSE Max(floor, CHOOSE b \in {Bottom(d.nodes[secs[k]]) : k \in K} :
                       \A k \in K : Bottom(d.nodes[secs[k]]) <= b)

\* C2 (as stated): heroBottom is the greatest bottom edge over all sections
\* with top < 1.15 * viewportHeight and bottom > 0, capped at
\* 1.15 * viewportHeight, and viewportHeight only when no section qualifies.
HeroBottomIsCappedMaximum ==
    Returned =>
       heroBottom =
          IF Qualifying(callDoc, HeroSections(callDoc)) = {} THEN callDoc.vh
          ELSE Min((115 * callDoc.vh) \div 100,
                   MaxBottom(callDoc, HeroSections(callDoc),
                             Qualifying(callDoc, HeroSections(callDoc)), 0))

\* C2 (amended): heroBottom is the greatest of viewportHeight and the bottom
\* edges of the on-screen sections that come, in section order, before the
\* first on-screen section whose top is at or beyond the cap, capped at
\* 1.15 * viewportHeight.
HeroBottomValue ==
    Returned =>
       heroBottom =
          Min((115 * callDoc.vh) \div 100,
              MaxBottom(callDoc, HeroSections(callDoc),
                        Considered(callDoc, HeroSections(callDoc)), callDoc.vh))

\* a section that qualifies follows one that starts at the cap, and the
\* sections in front of it end between the viewport and the cap
HeroBottomWitness ==
    /\ Returned
    /\ Qualifying(callDoc, HeroSections(callDoc))
          # Considered(callDoc, HeroSections(callDoc))
    /\ heroBottom > callDoc.vh
    /\ 100 * heroBottom < 115 * callDoc.vh

\* the boolean fields that only elements below the root and their text feed
ElementFlags ==
    {"has_form", "has_email_only", "has_password_field", "has_pricing_tokens",
     "has_promotion_signals", "has_promo_language", "has_transactional_cta",
     "has_price_display", "has_category_nav", "has_discovery_language",
     "has_brand_campaign_language", "has_trust_signals", "is_commerce_hero",
     "has_canvas", "has_webgl", "has_showcase_language", "has_feature_bullets",
     "has_dashboard_preview", "has_dashboard_keywords", "has_social_proof",
     "left_copy_right_media", "dark_theme_hero", "metrics_visible",
     "is_copy_only"}
\* the boolean fields that the title, the root's own text, class and
\* attributes, and the markers of the page also feed
PageFlags ==
    {"is_error_page", "has_animation_stack", "is_showcase_hero",
     "has_interactive_demo", "has_oauth", "has_filters", "has_countdown"}

EmptyTreeCore ==
    /\ heroBottom = callDoc.vh
    /\ response.fingerprint.headline = NullText
    /\ response.fingerprint.subheadline = NullText
    /\ response.fingerprint.ctas = <<>>
    /\ response.fingerprint.cta_count = 0
    /\ response.fingerprint.primary_cta_text = NullText

\* C3 (as stated): with no children under the root, heroBottom is
\* viewportHeight, headline, subheadline and primary_cta_text are null, ctas is
\* empty, cta_count is 0 and every boolean flag is false.
EmptyTreeAllFlagsFalse ==
    (Returned /\ callDoc.nodes = <<>>) =>
       /\ EmptyTreeCore
       /\ \A f \in ElementFlags \cup PageFlags : ~response.fingerprint[f]

\* C3 (amended): with no children under the root, heroBottom is
\* viewportHeight, headline, subheadline and primary_cta_text are null, ctas is
\* empty, cta_count is 0 and every boolean flag computed from the elements
\* below the root and their text is false.
EmptyTree ==
    (Returned /\ callDoc.nodes = <<>>) =>
       /\ EmptyTreeCore
       /\ \A f \in ElementFlags : ~response.fingerprint[f]

\* an empty body under a title that reads as an error page
EmptyTreeWitness ==
    /\ Returned
    /\ callDoc.nodes = <<>>
    /\ response.fingerprint.is_error_page
    /\ response.fingerprint.headline = NullText

\* top and height of the sections q of d
Geometry(d, q) == [k \in 1..Len(q) |-> <<d.nodes[q[k]].top, d.nodes[q[k]].height>>]

TextRaised(old, new, i) ==
    /\ i \in 1..Len(old.nodes)
    /\ CtaElement(old.nodes[i])
    /\ old.nodes[i].text # new.nodes[i].text
    /\ new = [old EXCEPT !.nodes[i].text = new.nodes[i].text]
    /\ ctaPriority(new.nodes[i].text) > ctaPriority(old.nodes[i].text)
\* the index of the CTA at n among the ranked CTAs of a response, 0 for none
RankOf(resp, n) ==
    IF \E k \in 1..Len(resp.fingerprint.cta_details) :
          resp.fingerprint.cta_details[k].position = [top |-> n.top, left |-> n.left]
    THEN CHOOSE k \in 1..Len(resp.fingerprint.cta_details) :
          resp.fingerprint.cta_details[k].position = [top |-> n.top, left |-> n.left]
    ELSE 0
NotLater(old, new, i) ==
    /\ RankOf(prevResponse, old.nodes[i]) > 0
    /\ RankOf(response, new.nodes[i]) > 0
    /\ RankOf(response, new.nodes[i]) <= RankOf(prevResponse, old.nodes[i])

\* C5 (as stated): a change of one candidate's text to a higher verb tier,
\* all else unchanged, never moves the candidate to a later index of ctas.
RaisedTierNeverLater ==
    Twice =>
       \A i \in 1..Len(callDoc.nodes) :
          TextRaised(prevCallDoc, callDoc, i) => NotLater(prevCallDoc, callDoc, i)

\* C5 (amended): a change of one candidate's text to a higher verb tier, all
\* else unchanged, never moves the candidate to a later index of ctas, unless
\* the new text names an OAuth provider and the old one did not.
RaisedTierMonotone ==
    Twice =>
       \A i \in 1..Len(callDoc.nodes) :
          (/\ TextRaised(prevCallDoc, callDoc, i)
           /\ ~(OAuthText(callDoc.nodes[i].text)
                /\ ~OAuthText(prevCallDoc.nodes[i].text)))
             => NotLater(prevCallDoc, callDoc, i)

\* the last of three links turns from "learn more" into "start free" and
\* moves to the front
RaisedTierWitness ==
    /\ Twice
    /\ \E i \in 1..Len(callDoc.nodes) :
          /\ TextRaised(prevCallDoc, callDoc, i)
          /\ ~OAuthText(callDoc.nodes[i].text)
          /\ RankOf(prevResponse, prevCallDoc.nodes[i]) = 3
          /\ RankOf(response, callDoc.nodes[i]) = 1

\* a small h1 "Acme" at the top left and a text block below it in a larger font
LogoPage(d) ==
    \E i, j \in 1..Len(d.nodes) :
       /\ d.nodes[i].tag = "H1" /\ d.nodes[i].text = <<"acme">>
       /\ d.nodes[i].top < 120 /\ d.nodes[i].height < 90
       /\ 100 * d.nodes[i].width < 35 * d.vw
       /\ d.nodes[j].text = Tagline
       /\ d.nodes[j].fontSize > d.nodes[i].fontSize
       /\ d.nodes[j].top > Bottom(d.nodes[i])

\* C6: with a logo-like h1 "Acme" and a lower, larger text block "Ship code
\* faster, together", the headline is the text of the block, wherever the two
\* nodes are placed in the tree.
LogoHeadingFallback ==
    (Returned /\ LogoPage(callDoc)) => response.fingerprint.headline = Tagline

\* the sampled background: the colour of the sampled element when it is not
\* fully transparent, else the first stop of its gradient when that stop is
\* not fully transparent
SampledBackground(f) ==
    IF f.hero_bg.a > 0 THEN <<f.hero_bg>>
    ELSE IF f.hero_bg_gradient.present /\ f.hero_bg_gradient.stops # <<>>
            /\ f.hero_bg_gradient.stops[1].a > 0
    THEN <<f.hero_bg_gradient.stops[1]>>
    ELSE <<>>

\* C7: dark_theme_hero is true exactly when the luminance
\* (0.2126r + 0.7152g + 0.0722b) / 255 of the sampled background is < 0.2 and
\* that of the headline text is > 0.7.
DarkThemeRule ==
    Returned =>
       (response.fingerprint.dark_theme_hero
          <=> /\ SampledBackground(response.fingerprint) # <<>>
              /\ LumScaled(SampledBackground(response.fingerprint)[1]) < 510000
              /\ LumScaled(response.fingerprint.hero_text_color) > 1785000)

\* the pairs of a base library and a tag that suppresses it
Suppressed ==
    {<<"react", "nextjs">>, <<"react", "gatsby">>, <<"react", "remix">>,
     <<"vue", "nuxt">>, <<"vue", "vitepress">>, <<"framer-motion", "framer">>}

\* C8: detected_stack never holds a base library together with a tag that
\* suppresses it: react with nextjs, gatsby or remix, vue with nuxt or
\* vitepress, framer-motion with framer.
StackSuppression ==
    Returned =>
       \A p \in Suppressed :
          ~(/\ p[1] \in Range(response.fingerprint.detected_stack)
            /\ p[2] \in Range(response.fingerprint.detected_stack))

\* a page with the markers of react and of nextjs reports nextjs
StackSuppressionWitness ==
    /\ Returned
    /\ {"react", "nextjs"} \subseteq callDoc.markers
    /\ "nextjs" \in Range(response.fingerprint.detected_stack)

\* the visible elements of the hero that hold an image and a price string in
\* less than 300 characters of text
PricedElements(d, hb) ==
    {i \in 1..Len(d.nodes) :
        /\ InHeroVisible(d, hb, i)
        /\ LooksLikeProductCard(d, i)}
\* those that hold no other such element: the cards themselves
PricedCards(d, hb) ==
    {i \in PricedElements(d, hb) :
        Descendants(d, i) \cap PricedElements(d, hb) = {}}
Marked(d, S) ==
    {i \in S : MatchesCardSelector(d.nodes[i])}

FingerprintFieldNames ==
    {"layout", "alignment", "hero_height_ratio", "headline", "subheadline",
     "headline_word_count", "cta_count", "primary_cta_text", "ctas",
     "cta_details", "has_form", "form_fields_count", "has_email_only",
     "has_password_field", "has_oauth", "grid_cards_in_fold", "has_filters",
     "detected_stack", "page_text", "has_pricing_tokens",
     "has_promotion_signals", "has_promo_language", "has_transactional_cta",
     "has_price_display", "price_count", "has_countdown", "add_to_cart_count",
     "product_card_count", "has_category_nav", "has_discovery_language",
     "has_brand_campaign_language", "has_trust_signals", "trust_badge_count",
     "is_commerce_hero", "has_canvas", "has_webgl", "large_svg_count",
     "has_interactive_demo", "has_animation_stack", "has_showcase_language",
     "is_showcase_hero", "is_error_page", "error_page_reason", "bullet_count",
     "feature_bullet_count", "has_feature_bullets", "total_lists_in_hero",
     "has_dashboard_preview", "has_dashboard_keywords", "has_social_proof",
     "logo_count", "left_copy_right_media", "dark_theme_hero", "hero_bg",
     "hero_bg_gradient", "hero_bg_color_name", "hero_bg_gradient_tag",
     "hero_text_color", "hero_bg_sampled_from", "hero_media_type",
     "hero_images", "hero_image_count", "metrics_visible", "is_copy_only",
     "interactive_debug", "list_items_raw"}
CountFields ==
    {"headline_word_count", "cta_count", "form_fields_count",
     "grid_cards_in_fold", "price_count", "add_to_cart_count",
     "product_card_count", "trust_badge_count", "large_svg_count",
     "bullet_count", "feature_bullet_count", "total_lists_in_hero",
     "logo_count", "hero_image_count"}
ListFields == {"ctas", "cta_details", "detected_stack", "hero_images",
               "list_items_raw"}
\* null, or a text that is not empty
TextOrNull(t) == t = NullText \/ Len(t) > 0

\* C10: every call on a tree with a root returns a fingerprint, with every
\* field present and an absent signal false, null, 0 or an empty list.
GracefulDegradation ==
    Returned =>
       /\ response.success
       /\ DOMAIN response.fingerprint = FingerprintFieldNames
       /\ \A f \in ElementFlags \cup PageFlags :
             response.fingerprint[f] \in BOOLEAN
       /\ \A f \in CountFields : response.fingerprint[f] \in Nat
       /\ \A f \in ListFields :
             DOMAIN response.fingerprint[f] = 1..Len(response.fingerprint[f])
       /\ TextOrNull(response.fingerprint.headline)
       /\ TextOrNull(response.fingerprint.subheadline)
       /\ TextOrNull(response.fingerprint.primary_cta_text)
       /\ response.fingerprint.headline = NullText
             => response.fingerprint.headline_word_count = 0
       /\ response.fingerprint.ctas = <<>>
             => /\ response.fingerprint.cta_count = 0
                /\ response.fingerprint.primary_cta_text = NullText
       /\ response.fingerprint.error_page_reason = Null
             <=> ~response.fingerprint.is_error_page
       /\ response.fingerprint.hero_media_type = Null
             => ~response.fingerprint.has_dashboard_preview
       /\ response.fingerprint.hero_bg = NullColor
             => /\ ~response.fingerprint.dark_theme_hero
                /\ response.fingerprint.hero_bg_color_name = Null
                /\ response.fingerprint.hero_bg_sampled_from = NoTag

\* a tree with sections none of which is on screen: no headline and no CTA
GracefulDegradationWitness ==
    /\ Returned
    /\ callDoc.nodes # <<>>
    /\ \A k \in 1..Len(callDoc.nodes) : Bottom(callDoc.nodes[k]) <= 0
    /\ response.fingerprint.headline = NullText
    /\ response.fingerprint.ctas = <<>>

\* the fingerprint of the page with the theme sub-result at its defaults
WithoutTheme(f) ==
    [f EXCEPT !.dark_theme_hero = EmptyThemeResult.is_dark,
              !.hero_bg = EmptyThemeResult.hero_bg,
              !.hero_bg_gradient = EmptyThemeResult.hero_bg_gradient,
              !.hero_bg_color_name = EmptyThemeResult.hero_bg_color_name,
              !.hero_bg_gradient_tag = EmptyThemeResult.hero_bg_gradient_tag,
              !.hero_text_color = EmptyThemeResult.hero_text_color,
              !.hero_bg_sampled_from = EmptyThemeResult.sampled_element]
\* what extractFingerprint returns on d when no query fails
Ranked(d, hb, sel, e) ==
    SortedCtas(d, sel.headlineEl, HeroCtaInput(d, hb, sel.headlineEl), e)
Extracted(d, hb, sel, cs, e) ==
    Fingerprint(d, hb, sel, cs,
                Subheadline(d, hb, Texts(cs), sel.headlineEl, e),
                RunStackRules(d, 1, InitialDetectedStack))
ExtractFrom(d, hb, sel, e) == Extracted(d, hb, sel, Ranked(d, hb, sel, e), e)
Unfailed(d, e) ==
    ExtractFrom(d, ComputeHeroBottom(d),
                SelectHeadline(d, ComputeHeroBottom(d)), e)

\* C11: when document.elementFromPoint throws in the colour sampler, the call
\* still returns a complete fingerprint: the theme fields are at their
\* defaults and every other field is as it is without the failure.
HostFailureIsolation ==
    (Ended /\ host = "throws") =>
       /\ response.success
       /\ response.fingerprint = WithoutTheme(Unfailed(callDoc, engine))


\* the place of a tag in the catalog
RuleIndex(tag) == CHOOSE k \in 1..Len(StackRules) : StackRules[k].tag = tag

\* C12: detected_stack holds each tag at most once, and in the order in which
\* the catalog evaluates the rules.
StackOrderedSet ==
    Returned =>
       \A i, j \in 1..Len(response.fingerprint.detected_stack) :
          i < j => RuleIndex(response.fingerprint.detected_stack[i])
                      < RuleIndex(response.fingerprint.detected_stack[j])

\* a page with a framework, a base library, a CSS library, a host and an
\* animation library
StackOrderedSetWitness ==
    /\ Returned
    /\ response.fingerprint.detected_stack
          = <<"webflow", "react", "tailwind", "vercel", "gsap">>


\* the ranked CTAs of the response
RankedCtas == response.fingerprint.cta_details
SameClassAndKind(a, b) ==
    /\ OAuthText(a.text) = OAuthText(b.text)
    /\ a.type = b.type

\* C13: for two entries a before b of the ranked ctas, a is not an OAuth CTA
\* while b is none; with the same OAuth class, a is not a link while b is a
\* button; with the same kind as well, the verb tier of a is not below that
\* of b.
CtaRankingOrder ==
    Returned =>
       \A k, m \in 1..Len(RankedCtas) :
          k < m =>
             /\ ~(OAuthText(RankedCtas[k].text) /\ ~OAuthText(RankedCtas[m].text))
             /\ OAuthText(RankedCtas[k].text) = OAuthText(RankedCtas[m].text)
                   => ~(RankedCtas[k].type = "link" /\ RankedCtas[m].type = "button")
             /\ SameClassAndKind(RankedCtas[k], RankedCtas[m])
                   => ctaPriority(RankedCtas[k].text) >= ctaPriority(RankedCtas[m].text)

\* an OAuth link first in the page ends last, behind a button and a link
CtaRankingOrderWitness ==
    /\ Returned
    /\ Len(RankedCtas) = 3
    /\ OAuthText(callDoc.nodes[3].text)
    /\ RankedCtas[1].type = "button"
    /\ RankedCtas[2].type = "link"
    /\ OAuthText(RankedCtas[3].text)
    /\ ctaPriority(RankedCtas[1].text) < ctaPriority(RankedCtas[2].text)


\* the kinds of verb a CTA text starts with
SelfServeText(t) ==
    \/ t[1] \in {"deploy", "start", "try", "create", "register", "join",
                 "launch", "download", "install", "begin", "buy", "subscribe"}
    \/ StartsWith(t, <<"get", "started">>)
    \/ StartsWith(t, <<"sign", "up">>)
SalesLedText(t) ==
    \/ t[1] \in {"book", "schedule", "request", "contact", "demo"}
    \/ StartsWith(t, <<"talk", "to">>)
InformationalText(t) ==
    \/ t[1] \in {"explore", "watch"}
    \/ \E p \in {<<"learn", "more">>, <<"see", "more">>, <<"view", "details">>} :
          StartsWith(t, p)
OtherRecognizedText(t) ==
    \/ t[1] \in {"submit"}
    \/ StartsWith(t, <<"log", "in">>)
    \/ StartsWith(t, <<"sign", "in">>)
\* five tiers: self-serve, sales-led, informational, other recognized verbs,
\* unranked
FiveTiers(t) ==
    IF SelfServeText(t) THEN 4
    ELSE IF SalesLedText(t) THEN 3
    ELSE IF InformationalText(t) THEN 2
    ELSE IF OtherRecognizedText(t) THEN 1
    ELSE 0
\* four tiers: informational and other recognized verbs share one
FourTiers(t) ==
    IF SelfServeText(t) THEN 3
    ELSE IF SalesLedText(t) THEN 2
    ELSE IF InformationalText(t) \/ OtherRecognizedText(t) THEN 1
    ELSE 0

\* C14 (as stated): the verb tiers are five and strictly ordered: with the
\* same OAuth class and element kind, a CTA that starts with an informational
\* verb ranks in front of one that starts with another recognized verb,
\* whatever their distance, area and left position.
FiveStrictTiers ==
    Returned =>
       \A k, m \in 1..Len(RankedCtas) :
          (k < m /\ SameClassAndKind(RankedCtas[k], RankedCtas[m]))
             => FiveTiers(RankedCtas[k].text) >= FiveTiers(RankedCtas[m].text)

\* C14 (amended): the verb tiers are four and strictly ordered, self-serve >
\* sales-led > informational or other recognized verb > unranked: with the
\* same OAuth class and element kind a CTA of a higher tier ranks first; an
\* informational verb and another recognized verb are of one tier.
FourStrictTiers ==
    Returned =>
       \A k, m \in 1..Len(RankedCtas) :
          (k < m /\ SameClassAndKind(RankedCtas[k], RankedCtas[m]))
             => FourTiers(RankedCtas[k].text) >= FourTiers(RankedCtas[m].text)

\* three links: the self-serve one first, then "log in" in front of
\* "learn more"
FourStrictTiersWitness ==
    /\ Returned
    /\ Len(RankedCtas) = 3
    /\ \A k \in 1..3 : RankedCtas[k].type = "link"
    /\ SelfServeText(RankedCtas[1].text)
    /\ OtherRecognizedText(RankedCtas[2].text)
    /\ InformationalText(RankedCtas[3].text)

\* C15: cta_count is the length of ctas and of cta_details, cta_details[i]
\* has the text ctas[i], and primary_cta_text is the first of ctas, null when
\* ctas is empty.
PrimaryCtaConsistency ==
    Returned =>
       /\ response.fingerprint.cta_count = Len(response.fingerprint.ctas)
       /\ response.fingerprint.cta_count = Len(RankedCtas)
       /\ \A k \in 1..Len(RankedCtas) :
             RankedCtas[k].text = response.fingerprint.ctas[k]
       /\ response.fingerprint.primary_cta_text =
             IF response.fingerprint.ctas = <<>> THEN NullText
             ELSE response.fingerprint.ctas[1]

\* three ranked CTAs of three texts
PrimaryCtaConsistencyWitness ==
    /\ Returned
    /\ response.fingerprint.cta_count = 3
    /\ Cardinality(Range(response.fingerprint.ctas)) = 3
    /\ response.fingerprint.primary_cta_text = <<"start", "free">>


\* C16: a headline that is not null has at most 30 words, and
\* headline_word_count is its number of words, 0 for null, on every path:
\* the h1's direct text, the widening, the override and the fallback.
HeadlineWordBudget ==
    Returned =>
       IF response.fingerprint.headline = NullText
       THEN response.fingerprint.headline_word_count = 0
       ELSE /\ Len(response.fingerprint.headline) \in 1..30
            /\ response.fingerprint.headline_word_count
                  = Len(response.fingerprint.headline)

\* an h1 of 31 words is given up for a paragraph cut to its first 15 words
HeadlineWordBudgetWitness ==
    /\ Returned
    /\ callDoc \in LongDocs
    /\ callDoc.nodes[2].tag = "H1"
    /\ Len(callDoc.nodes[2].text) = 31
    /\ Len(callDoc.nodes) = 4
    /\ response.fingerprint.headline = Words(15)


\* the h1 of the page and the headline taken from it, null when there is none
PageH1 == FindH1(callDoc, heroBottom)
OwnHeadline == H1Headline(callDoc, PageH1)
PageBest == Best(callDoc, heroBottom)
\* the h1 looks like a small logo or lies in a nav or footer region
LogoOrNav ==
    \/ headlineLooksLikeLogo(callDoc, PageH1, OwnHeadline)
    \/ h1LikelyNav(callDoc, PageH1)
\* the largest candidate is larger than the h1 and lower
LargerLower ==
    /\ PageBest # 0
    /\ callDoc.nodes[PageBest].top >= Bottom(callDoc.nodes[PageH1]) + 20
    /\ callDoc.nodes[PageBest].fontSize >= callDoc.nodes[PageH1].fontSize + 4
\* the largest candidate is at least 8px larger than the h1 and starts at
\* least 24px below its bottom
ClearlyLargerBelow ==
    /\ PageBest # 0
    /\ callDoc.nodes[PageBest].top >= Bottom(callDoc.nodes[PageH1]) + 24
    /\ callDoc.nodes[PageBest].fontSize >= callDoc.nodes[PageH1].fontSize + 8
FromH1 == Returned /\ PageH1 # 0 /\ ~Falsy(OwnHeadline)

\* C17 (as stated): a headline taken from an h1 is replaced by the largest
\* candidate only if the h1 looks like a small logo or lies in a nav or
\* footer region and a larger, lower candidate exists; an h1 that is neither
\* keeps its text as the headline however large the other candidates are.
OverrideOnlyOfLogoOrNav ==
    FromH1 =>
       /\ response.fingerprint.headline # OwnHeadline
             => LogoOrNav /\ LargerLower
       /\ ~LogoOrNav => response.fingerprint.headline = OwnHeadline

\* C17 (amended): a headline taken from an h1 is replaced by the largest
\* candidate only if the h1 looks like a small logo or lies in a nav or
\* footer region and a larger, lower candidate exists, or if the largest
\* candidate is at least 8px larger than the h1 and starts at least 24px
\* below the h1's bottom; an h1 that is neither logo-like nor nav-like keeps
\* its text unless there is such a candidate.
OverrideCondition ==
    FromH1 =>
       /\ response.fingerprint.headline # OwnHeadline
             => (LogoOrNav /\ LargerLower) \/ ClearlyLargerBelow
       /\ (~LogoOrNav /\ ~ClearlyLargerBelow)
             => response.fingerprint.headline = OwnHeadline

\* an h1 at the top of the page loses to a block below it that is larger,
\* by less than 8px
OverrideConditionWitness ==
    /\ FromH1
    /\ LogoOrNav
    /\ LargerLower
    /\ ~ClearlyLargerBelow
    /\ response.fingerprint.headline # OwnHeadline
    /\ response.fingerprint.headline = callDoc.nodes[PageBest].text


\* C18: in every returned fingerprint is_showcase_hero equals
\* (has_animation_stack or has_canvas or has_webgl or has_interactive_demo)
\* and (cta_count <= 1 or has_showcase_language or has_interactive_demo), all
\* read from the reported fields; so a reported interactive demo is always a
\* showcase hero
ShowcaseOfReported(f) ==
    /\ \/ f.has_animation_stack
       \/ f.has_canvas
       \/ f.has_webgl
       \/ f.has_interactive_demo
    /\ \/ f.cta_count <= 1
       \/ f.has_showcase_language
       \/ f.has_interactive_demo
ShowcaseFormula ==
    Returned =>
        /\ response.fingerprint.is_showcase_hero
               = ShowcaseOfReported(response.fingerprint)
        /\ response.fingerprint.has_interactive_demo
               => response.fingerprint.is_showcase_hero


\* C19: the interactive_debug record is consistent with itself:
\* looks_like_audio_demo is the OR of the three combinations of the record's
\* own has_text_input, has_selectable_list, has_voice_language,
\* has_play_control and has_audio_element, and has_interactive_demo is
\* has_interactive_demo_base or looks_like_audio_demo
AudioDemoOfRecord(g) ==
    \/ /\ g.has_text_input
       /\ \/ g.has_selectable_list
          \/ g.has_voice_language
          \/ g.has_play_control
          \/ g.has_audio_element
    \/ /\ g.has_selectable_list
       /\ \/ g.has_play_control
          \/ g.has_audio_element
          \/ g.has_voice_language
    \/ g.has_play_control /\ g.has_voice_language
DebugRecordConsistent(g) ==
    /\ g.looks_like_audio_demo = AudioDemoOfRecord(g)
    /\ g.has_interactive_demo
          = (g.has_interactive_demo_base \/ g.looks_like_audio_demo)
InteractiveDebugConsistency ==
    Returned => DebugRecordConsistent(response.fingerprint.interactive_debug)


\* the three texts the error page test reads
PageHeroText ==
    heroText(callDoc, heroBottom, SelectHeadline(callDoc, heroBottom).headlineEl)
ErrorSources == {callDoc.title, bodyText(callDoc), PageHeroText}
ErrorTermIn(P(_)) == \E t \in ErrorSources : P(t)
ReasonByPriority ==
    IF ErrorTermIn(BotBlockText) THEN "bot_blocked"
    ELSE IF ErrorTermIn(NotFoundText) THEN "not_found"
    ELSE IF ErrorTermIn(ServerErrorText) THEN "server_error"
    ELSE "unknown_error"

\* C20: error_page_reason is null exactly when is_error_page is false; on an
\* error page, whichever of the title, the leading body text and the hero
\* text matched, the reason is bot_blocked when a bot-block term is present
\* in them, else not_found when a not-found term is, else server_error when a
\* server-error term is, else unknown_error
ErrorPageReasonPriority ==
    Returned =>
       /\ (response.fingerprint.error_page_reason = Null)
             = ~response.fingerprint.is_error_page
       /\ response.fingerprint.is_error_page
             => response.fingerprint.error_page_reason = ReasonByPriority


\* the colour stops of the reported gradient that are not fully transparent
OpaqueStops(f) ==
    SelectSeq(f.hero_bg_gradient.stops, LAMBDA c : c.a > 0)
\* the sampled background is a gradient with a stop to use, under no solid
\* background colour
GradientOnly(f) ==
    /\ f.hero_bg.a = 0
    /\ f.hero_bg_gradient.present
    /\ OpaqueStops(f) # <<>>

\* C21: when the sampled background is a gradient with no opaque solid
\* background colour, hero_bg_color_name and the dark-theme decision use the
\* first opaque colour stop in textual order; a leading fully transparent
\* stop is skipped.
GradientFirstOpaqueStop ==
    (Returned /\ GradientOnly(response.fingerprint)) =>
       /\ response.fingerprint.hero_bg_color_name
             = classifyColor(OpaqueStops(response.fingerprint)[1])
       /\ response.fingerprint.dark_theme_hero
             <=> /\ LumScaled(OpaqueStops(response.fingerprint)[1]) < 510000
                 /\ LumScaled(response.fingerprint.hero_text_color) > 1785000


\* a child of the root taller than 1.5 times the viewport
TallChild(d, w) == 2 * d.nodes[w].height > 3 * d.vh
\* the root's children, each one for which Dig holds replaced by its own
\* children
Descend(d, Dig(_)) ==
    Flatten([k \in 1..Len(Children(d, 0)) |->
               IF Dig(Children(d, 0)[k]) THEN Children(d, Children(d, 0)[k])
               ELSE <<Children(d, 0)[k]>>])
\* the boundary has been computed on a root of at most 3 children
FewChildren ==
    /\ calls >= 1
    /\ pc # "boundary"
    /\ Len(Children(callDoc, 0)) <= 3

SoloDone(c, op) ==
    /\ proc[c].op = op
    /\ proc[c].pc = "done"
    /\ \A d \in 1..Callers : d # c => proc[d].pc = "idle"
\* the milliseconds from the expiry check of caller c to the expiry of the
\* session it read
TimeLeft(c) == proc[c].seen.expires_at * 1000 - proc[c].at
\* the call returned the session it read and left it alone
ReturnedStored(c) ==
    /\ proc[c].result = proc[c].seen
    /\ proc[c].refreshes = 0
    /\ storage = proc[c].seen
\* the call made one refresh and returned the session the API issued, now
\* the stored one; or the session it read had no refresh token or the API
\* refused it, and the call returned null and left the storage empty
ReturnedRefreshed(c) ==
    /\ proc[c].refreshes = 1
    /\ \/ /\ proc[c].result # NoSession
          /\ proc[c].result.access_token = server.issued
          /\ proc[c].result.access_token # proc[c].seen.access_token
          /\ storage = proc[c].result
       \/ /\ \/ proc[c].seen.refresh_token = 0
             \/ server.accepts # proc[c].seen.refresh_token
          /\ server.issued = proc[c].seen.access_token
          /\ proc[c].result = NoSession
          /\ storage = NoSession

FetchOutcome(c) ==
    /\ proc[c].requests <= 2
    /\ proc[c].requests = 2 =>
          /\ proc[c].ret = "authFetch"
          /\ proc[c].data # NoSession
          /\ proc[c].token = proc[c].data.access_token
    /\ proc[c].status = 401 =>
          /\ storage = NoSession
          /\ proc[c].error = "Session expired"
    /\ proc[c].error = "Session expired" => proc[c].status = 401
    /\ proc[c].token = 0 <=> proc[c].error = "Not authenticated"
    /\ proc[c].token = 0 => proc[c].requests = 0

RefreshedWith(c, rt) ==
    /\ proc[c].pc = "done"
    /\ proc[c].refreshes = 1
    /\ proc[c].read = rt

\* C29: when two refreshSession calls have read the same refresh token, which
\* the API accepts once, the session stored by the successful one is still in
\* storage after both calls are over: the failing call does not clear a
\* session written after it read its refresh token.
ConcurrentRefreshKeepsSession ==
    \A c, d \in 1..Callers :
       /\ c # d
       /\ proc[c].read # 0
       /\ RefreshedWith(c, proc[c].read)
       /\ RefreshedWith(d, proc[c].read)
       /\ proc[c].data # NoSession
       /\ proc[c].error # "Session expired"
       /\ proc[d].data = NoSession
       /\ \A e \in 1..Callers \ {c, d} : proc[e].pc = "idle"
       => storage = proc[c].data


\* the floating icons, the service worker and the side panel
CaptureInit ==
    /\ HeroIdle
    /\ storage \in {NoSession, SignedIn}
    /\ server = [accepts |-> 0, exp |-> [t \in 1..TokenCap |-> 0], issued |-> 0]
    /\ now = 0
    /\ proc = [c \in 1..Callers |-> IdleProc]
    /\ CaptureIdle

CaptureNext ==
    \/ \E t \in 1..Tabs : Click(t)
    \/ \E m \in msgs : handleFabCapture(m)
    \/ \E m \in msgs : START_CAPTURE(m)
    \/ CaptureButton
    \/ \E k \in 1..MaxCaptures : handleInjectAndExtract(k)
    \/ \E k \in 1..MaxCaptures : captureHero(k)
    \/ \E k \in 1..MaxCaptures : Answered(k)
    \/ \E m \in msgs : loadActiveTab(m)
    \/ \E m \in msgs : CAPTURE_DONE(m)
    \/ \E m \in msgs : CAPTURE_ERROR(m)
    \/ \E t \in 1..Tabs : TimerFires(t)
    \/ \E t \in 1..Tabs : onActivated(t)
    \/ \E t \in 1..Tabs, url \in Urls, spa \in BOOLEAN : onUpdated(t, url, spa)
    \/ init
    \/ startPolling
    \/ DifferentEmail
    \/ Poll
    \/ \E verified \in BOOLEAN : checkAuthStatus(verified)
    \/ \E m \in msgs : onSessionChange(m)
    \/ handleSignOut
    \/ handleRetry
    \/ OpenCard
    \/ Back

SpecCapture == CaptureInit /\ [][CaptureNext]_vars


\* messages are delivered, backend calls complete and timers fire
CaptureFairness ==
    /\ WF_vars(\E m \in msgs : handleFabCapture(m))
    /\ WF_vars(\E m \in msgs : START_CAPTURE(m))
    /\ WF_vars(\E k \in 1..MaxCaptures : handleInjectAndExtract(k))
    /\ WF_vars(\E k \in 1..MaxCaptures : captureHero(k))
    /\ WF_vars(\E k \in 1..MaxCaptures : Answered(k))
    /\ WF_vars(\E m \in msgs : loadActiveTab(m))
    /\ WF_vars(\E m \in msgs : CAPTURE_DONE(m))
    /\ WF_vars(\E m \in msgs : CAPTURE_ERROR(m))
    /\ WF_vars(\E m \in msgs : onSessionChange(m))
    /\ WF_vars(\E t \in 1..Tabs : TimerFires(t))
    /\ WF_vars(init)

SpecCaptureFair == CaptureInit /\ [][CaptureNext]_vars /\ CaptureFairness

\* C23: a timer that reverts the icon of a tab from "done" to "ready" is the
\* timer started by the CAPTURE_DONE that entered this "done": a timer
\* started by an earlier CAPTURE_DONE never reverts it.
DoneRevertedByOwnTimer ==
    [][\A t \in 1..Tabs :
          /\ tabs[t].timers # <<>>
          /\ tabs'[t].timers = Tail(tabs[t].timers)
          /\ tabs'[t].url = tabs[t].url
          /\ tabs[t].fab = "done"
          /\ tabs'[t].fab = "ready"
          => Head(tabs[t].timers)]_vars

\* C26: an icon that a click moved to "capturing" eventually leaves
\* "capturing", when messages are delivered and backend calls complete,
\* whatever screen the side panel shows when START_CAPTURE reaches it.
CapturingIconReleased ==
    \A t \in 1..Tabs :
       (tabs[t].fab = "capturing") ~> (tabs[t].fab # "capturing")

\* C27: the URL handleCapture submits with a fingerprint is the URL of the
\* tab the fingerprint was extracted from, and CAPTURE_DONE or CAPTURE_ERROR
\* goes to that tab.
CaptureUrlMatchesFingerprint ==
    \A k \in 1..MaxCaptures :
       /\ cap[k].submitted # NoTab => cap[k].submitted = cap[k].fp
       /\ cap[k].pc = "done" /\ cap[k].fp # NoTab => cap[k].to = cap[k].fp.id

\* sign-out has completed: no user in the state of the panel, no session
\* in storage, and init is over
SignedOut ==
    /\ ~panel.user
    /\ storage = NoSession
    /\ panel.screen # "loading"

\* C28: once signed out the side panel shows "auth" or "auth-waiting" until a
\* new session appears: a capture or a poll in flight at the sign-out does
\* not move it to "breakdown", "error" or "capture".
SignedOutScreen ==
    SignedOut => panel.screen \in {"auth", "auth-waiting"}

\* C30: every INJECT_AND_EXTRACT request runs extractFingerprint once and
\* gets one response, however many captures were run on the tab before.
OneExtractionPerRequest ==
    \A k \in 1..MaxCaptures :
       cap[k].pc \in {"extracted", "submitted", "done"} /\ cap[k].fp # NoTab =>
          /\ cap[k].runs = 1
          /\ cap[k].responses = 1

====
